---- MODULE Spec2Model ----
(***************************************************************************)
(* py-file-versioning: the versioning engine (versioning.py, _internal.py) *)
(* as a state machine over the versions directory.                         *)
(*                                                                         *)
(* File names are sequences of one-character strings, so that the filename *)
(* encoder (_get_version_name) and the decoder (_VersionInfo) are modelled *)
(* by what they do to the characters.  Times are seconds since local       *)
(* midnight of one fixed day.                                              *)
(***************************************************************************)
EXTENDS Integers, Sequences, FiniteSets, TLC

(***************************************************************************)
(* Bounds of the model                                                     *)
(***************************************************************************)
\* number of create/list/remove calls explored
MaxOps == 2
\* number of clock ticks explored
MaxTicks == 1
\* number of foreign files placed in the versions directory before the run
MaxForeign == 1

(***************************************************************************)
(* Program constants                                                       *)
(***************************************************************************)
MAX_SEQUENCE == 999

\* _FileVersioningConfig.delimiter (default)
delimiter == <<"-", "-">>

\* the values of the enums _TimezoneFormat, _TimestampSource, _CompressionType
TimezoneFormat == {"utc", "loc"}
TimestampSource == {"mod", "sto"}
CompressionType == {"none", "gz", "bz2", "xz"}

\* max_versions = None
NoLimit == 0

(***************************************************************************)
(* Characters and strings                                                  *)
(***************************************************************************)
Digits == <<"0", "1", "2", "3", "4", "5", "6", "7", "8", "9">>

IsDigitChar(c) == \E i \in 1..10 : Digits[i] = c

DigitVal(c) == (CHOOSE i \in 1..10 : Digits[i] = c) - 1

\* str.isdigit(): non-empty and every character a digit
isdigit(s) == Len(s) > 0 /\ \A i \in 1..Len(s) : IsDigitChar(s[i])

\* int(s) for a string of digits
int(s) ==
    LET value[n \in 0..Len(s)] == IF n = 0 THEN 0 ELSE 10 * value[n - 1] + DigitVal(s[n])
    IN  value[Len(s)]

\* Python slice s[a:b] with 0-based a, b clipped to the string
Slice(s, a, b) ==
    LET hi == IF b > Len(s) THEN Len(s) ELSE b
    IN  IF a >= hi THEN <<>> ELSE SubSeq(s, a + 1, hi)

\* str.startswith
StartsWith(s, p) == Len(s) >= Len(p) /\ SubSeq(s, 1, Len(p)) = p

Contains(s, c) == \E i \in 1..Len(s) : s[i] = c

\* str.find(d, start): 0-based index of the first occurrence of d at or
\* after start, -1 if none
Find(s, d, start) ==
    LET hits == {i \in start..(Len(s) - Len(d)) : SubSeq(s, i + 1, i + Len(d)) = d}
    IN  IF hits = {} THEN -1
        ELSE CHOOSE i \in hits : \A j \in hits : i <= j

\* str.rfind(c) for one character, 0-based, -1 if none
RFind(s, c) ==
    LET hits == {i \in 1..Len(s) : s[i] = c}
    IN  IF hits = {} THEN -1
        ELSE (CHOOSE i \in hits : \A j \in hits : i >= j) - 1

\* str.split(d) for a non-empty separator d
split(s, d) ==
    LET rest[start \in 0..Len(s)] ==
            LET cut(i) == IF i < 0 THEN <<Slice(s, start, Len(s))>>
                          ELSE <<Slice(s, start, i)>> \o rest[i + Len(d)]
            IN  cut(Find(s, d, start))
    IN  rest[0]

\* str.replace(c, "") for one character
RemoveChar(s, c) ==
    LET kept[n \in 0..Len(s)] ==
            IF n = 0 THEN <<>>
            ELSE IF s[n] = c THEN kept[n - 1]
            ELSE Append(kept[n - 1], s[n])
    IN  kept[Len(s)]

\* str.lower() on the characters the model uses
LowerChar(c) ==
    CASE c = "G" -> "g"
      [] c = "Z" -> "z"
      [] c = "B" -> "b"
      [] c = "X" -> "x"
      [] OTHER -> c

lower(s) == [i \in 1..Len(s) |-> LowerChar(s[i])]

\* the character of the last decimal digit of n
DigitChar(n) == Digits[(n % 10) + 1]

\* f"{n:02d}" and f"{n:03d}"
Fmt02d(n) ==
    (IF n > 99 THEN <<DigitChar(n \div 100)>> ELSE <<>>) \o
    <<DigitChar(n \div 10), DigitChar(n)>>

Fmt03d(n) ==
    (IF n > 999 THEN <<DigitChar(n \div 1000)>> ELSE <<>>) \o
    <<DigitChar(n \div 100), DigitChar(n \div 10), DigitChar(n)>>

(***************************************************************************)
(* pathlib                                                                 *)
(***************************************************************************)
\* PurePath.suffix: from the last dot, unless that dot is first or last
suffix(name) ==
    LET i == RFind(name, ".")
    IN  IF 0 < i /\ i < Len(name) - 1 THEN Slice(name, i, Len(name)) ELSE <<>>

\* PurePath.stem
stem(name) ==
    LET i == RFind(name, ".")
    IN  IF 0 < i /\ i < Len(name) - 1 THEN Slice(name, 0, i) ELSE name

(***************************************************************************)
(* _CompressionType.from_extension                                         *)
(***************************************************************************)
\* the suffix compared as written
from_extension_as_written(name) ==
    LET ext == suffix(name)
    IN  CASE ext = <<".", "g", "z">> -> "gz"
          [] ext = <<".", "b", "z", "2">> -> "bz2"
          [] ext = <<".", "x", "z">> -> "xz"
          [] OTHER -> "none"

from_extension(name) ==
    LET ext == lower(suffix(name))
    IN  CASE ext = <<".", "g", "z">> -> "gz"
          [] ext = <<".", "b", "z", "2">> -> "bz2"
          [] ext = <<".", "x", "z">> -> "xz"
          [] OTHER -> "none"

(***************************************************************************)
(* Timestamps                                                              *)
(***************************************************************************)
\* the day every time of the model falls on: 2024-02-07
Today == <<"2", "0", "2", "4", "0", "2", "0", "7">>

\* first instant of the run: 12:34:56 local time, in seconds since midnight
StartTime == 12 * 3600 + 34 * 60 + 56

\* local time minus UTC, in seconds (the zone of the machine)
UtcOffset == 1 * 3600

\* datetime.strftime("%Y%m%d.%H%M%S") of second t of Today
strftime(t) ==
    Today \o <<".">> \o Fmt02d(t \div 3600) \o Fmt02d((t \div 60) % 60) \o Fmt02d(t % 60)

IsLeap(y) == (y % 4 = 0 /\ y % 100 # 0) \/ y % 400 = 0

DaysInMonth(y, m) ==
    CASE m \in {4, 6, 9, 11} -> 30
      [] m = 2 -> IF IsLeap(y) THEN 29 ELSE 28
      [] OTHER -> 31

\* does datetime.strptime(ts, "%Y%m%d.%H%M%S") accept the 15 characters ts
strptime_ok(ts) ==
    /\ Len(ts) = 15
    /\ ts[9] = "."
    /\ isdigit(Slice(ts, 0, 8))
    /\ isdigit(Slice(ts, 9, 15))
    /\ LET y == int(Slice(ts, 0, 4))
           m == int(Slice(ts, 4, 6))
           d == int(Slice(ts, 6, 8))
       IN  /\ y >= 1
           /\ m \in 1..12
           /\ d >= 1 /\ d <= DaysInMonth(y, m)
           /\ int(Slice(ts, 9, 11)) <= 23
           /\ int(Slice(ts, 11, 13)) <= 59
           /\ int(Slice(ts, 13, 15)) <= 61

\* the datetime strptime returns, as <<YYYYMMDD, second of the day>>
strptime(ts) ==
    <<int(Slice(ts, 0, 8)),
      3600 * int(Slice(ts, 9, 11)) + 60 * int(Slice(ts, 11, 13)) + int(Slice(ts, 13, 15))>>

(***************************************************************************)
(* _VersionSpec.from_string                                                *)
(***************************************************************************)
NoSpec == [err |-> "_VersionError", tz |-> "", src |-> ""]

TagOf(chars) ==
    CASE chars = <<"u", "t", "c">> -> "utc"
      [] chars = <<"l", "o", "c">> -> "loc"
      [] chars = <<"m", "o", "d">> -> "mod"
      [] chars = <<"s", "t", "o">> -> "sto"
      [] OTHER -> ""

\* the parse without the membership tests: every token that is not utc is
\* taken for loc, every token that is not mod for sto
from_string_lenient(spec_str) ==
    IF Len(spec_str) = 0 \/ ~Contains(spec_str, "_") THEN NoSpec
    ELSE LET unpack(parts) ==
                 IF Len(parts) # 2 THEN NoSpec
                 ELSE IF Len(parts[1]) = 0 \/ Len(parts[2]) = 0 THEN NoSpec
                 ELSE [err |-> "", tz |-> IF TagOf(parts[1]) = "utc" THEN "utc" ELSE "loc",
                       src |-> IF TagOf(parts[2]) = "mod" THEN "mod" ELSE "sto"]
         IN  unpack(split(spec_str, <<"_">>))

from_string(spec_str) ==
    IF Len(spec_str) = 0 \/ ~Contains(spec_str, "_") THEN NoSpec
    ELSE LET unpack(parts) ==
                 IF Len(parts) # 2 THEN NoSpec
                 ELSE IF Len(parts[1]) = 0 \/ Len(parts[2]) = 0 THEN NoSpec
                 ELSE IF TagOf(parts[1]) \notin TimezoneFormat THEN NoSpec
                 ELSE IF TagOf(parts[2]) \notin TimestampSource THEN NoSpec
                 ELSE [err |-> "", tz |-> TagOf(parts[1]), src |-> TagOf(parts[2])]
         IN  unpack(split(spec_str, <<"_">>))

\* str(_VersionSpec): the tags as characters
SpecChars(tz, src) ==
    (IF tz = "utc" THEN <<"u", "t", "c">> ELSE <<"l", "o", "c">>) \o <<"_">> \o
    (IF src = "mod" THEN <<"m", "o", "d">> ELSE <<"s", "t", "o">>)

(***************************************************************************)
(* _VersionInfo: the record decoded from a file name                       *)
(***************************************************************************)
NoParse == [err |-> "_VersionError", base |-> <<>>, ts |-> <<>>, seq |-> 0, spec |-> <<>>]

_parse_filename(filename) ==
    LET fields(parts) ==
            IF Len(parts) # 3 THEN NoParse
            ELSE LET version_info == parts[2]
                     spec_str == split(parts[3], <<".">>)[1]
                     timestamp == Slice(version_info, 0, 15)
                     sequence_str == Slice(version_info, 16, 19)
                 IN  IF Len(version_info) < 19 THEN NoParse
                     ELSE IF ~(Len(timestamp) = 15 /\ Contains(timestamp, ".")
                                /\ isdigit(RemoveChar(timestamp, "."))) THEN NoParse
                     ELSE IF ~isdigit(sequence_str) THEN NoParse
                     ELSE [err |-> "", base |-> parts[1], ts |-> timestamp,
                           seq |-> int(sequence_str), spec |-> spec_str]
    IN  fields(split(filename, delimiter))

\* _VersionInfo(path, config) for a file that exists (stat succeeds):
\* err names the exception the constructor raises, "" if it returns
_VersionInfo(filename) ==
    LET raised(e) == [err |-> e, filename |-> filename, original_name |-> <<>>, ts |-> <<>>,
                      timestamp |-> <<0, 0>>, sequence |-> 0, timezone_fmt |-> "",
                      timestamp_src |-> "", compression |-> ""]
        fields(p) ==
            IF p.err # "" THEN raised("_VersionError")
            ELSE IF ~strptime_ok(p.ts) THEN raised("ValueError")
            ELSE LET with(version_spec) ==
                         IF version_spec.err # "" THEN raised("_VersionError")
                         ELSE [err |-> "", filename |-> filename, original_name |-> p.base,
                               ts |-> p.ts, timestamp |-> strptime(p.ts), sequence |-> p.seq,
                               timezone_fmt |-> version_spec.tz,
                               timestamp_src |-> version_spec.src,
                               compression |-> from_extension(filename)]
                 IN  with(from_string(p.spec))
    IN  fields(_parse_filename(filename))

Decodes(filename) == _VersionInfo(filename).err = ""

(***************************************************************************)
(* The files of the model                                                  *)
(***************************************************************************)
\* the source file a.txt and a source path at which there is no file
ATxt == <<"a", ".", "t", "x", "t">>
GoneTxt == <<"g", ".", "t", "x", "t">>
SourceNames == {ATxt, GoneTxt}

\* name of a version as _get_version_name / _get_version_path build it
VersionName(base, ts, seq, tz, src, ext, compression) ==
    base \o delimiter \o ts \o <<"_">> \o Fmt03d(seq) \o delimiter \o SpecChars(tz, src) \o ext \o
    (CASE compression = "gz" -> <<".", "g", "z">>
       [] compression = "bz2" -> <<".", "b", "z", "2">>
       [] compression = "xz" -> <<".", "x", "z">>
       [] OTHER -> <<>>)

\* files that other programs or earlier runs may have left in the versions
\* directory: a note whose name starts like a version of a.txt, a name with
\* an impossible date, a version numbered 000, and a version of a.txt taken
\* a minute before StartTime (a.txt was put back to an older state since)
NoteFile == <<"a", "-", "-", "n", "o", "t", "e", "s", ".", "t", "x", "t">>
BadDateFile ==
    <<"a", "-", "-", "2", "0", "2", "4", "1", "3", "0", "7", ".", "1", "2", "3", "4", "5", "6",
      "_", "0", "0", "1", "-", "-", "l", "o", "c", "_", "m", "o", "d", ".", "t", "x", "t">>
ZeroSeqFile == VersionName(<<"a">>, strftime(StartTime), 0, "loc", "mod", <<".", "t", "x", "t">>, "none")
LaterFile == VersionName(<<"a">>, strftime(StartTime - 60), 1, "loc", "mod", <<".", "t", "x", "t">>, "none")
\* the version numbered 999 of a.txt as it is at the start, and version 005
\* of another file, b.txt, that carries the same timestamp
FullSeqFile == VersionName(<<"a">>, strftime(StartTime - 120), MAX_SEQUENCE, "loc", "mod", <<".", "t", "x", "t">>, "none")
OtherFile == VersionName(<<"b">>, strftime(StartTime - 120), 5, "loc", "mod", <<".", "t", "x", "t">>, "none")
ForeignFiles == {NoteFile, BadDateFile, ZeroSeqFile, LaterFile, FullSeqFile, OtherFile}

\* a validly named version file that lies outside the versions directory
StrayVersion == VersionName(<<"a">>, strftime(StartTime), 1, "loc", "mod", <<".", "t", "x", "t">>, "none")

\* the file a foreign file or a source starts with
File(data, enc, mtime) ==
    [data |-> data, enc |-> enc, mtime |-> mtime, atime |-> mtime, mode |-> "644"]

(***************************************************************************)
(* Configurations (_FileVersioningConfig)                                  *)
(***************************************************************************)
MaxVersionsChoices == {NoLimit, 1, 2}

AllConfigs ==
    [timezone_format : TimezoneFormat, timestamp_format : TimestampSource,
     compression : CompressionType, max_versions : MaxVersionsChoices]

\* the configurations the calls of the model are made under: every timezone
\* format, timestamp source and limit without compression, and every
\* compression under the default formats with a limit of one version
Configs ==
    {c \in AllConfigs :
        \/ c.compression = "none"
        \/ (c.timezone_format = "loc" /\ c.timestamp_format = "mod" /\ c.max_versions = 1)}

(***************************************************************************)
(* State                                                                   *)
(***************************************************************************)
VARIABLES
    versions_path,  \* the versions directory: file name -> file
    work_dir,       \* the files outside the versions directory: name -> file
    now,            \* the wall clock, in seconds since local midnight
    last,           \* the last call: its arguments and what it returned or raised
    before,         \* the two directories when the last call started
    streak,         \* sequences given by the consecutive creates of one (file, timestamp)
    ops,            \* number of calls made
    ticks           \* number of clock ticks

vars == <<versions_path, work_dir, now, last, before, streak, ops, ticks>>

Names(d) == DOMAIN d

\* the directory d with file name written / deleted
Write(d, name, file) == [n \in Names(d) \cup {name} |-> IF n = name THEN file ELSE d[n]]
Unlink_everything(d, names) == [n \in {} |-> d[n]]
Unlink(d, names) == [n \in Names(d) \ names |-> d[n]]

NoStreak == [file |-> <<>>, ts |-> <<>>, seqs |-> <<>>]

NoCall ==
    [op |-> "none", status |-> "", file |-> <<>>, path |-> <<>>, loc |-> "", removed |-> 0,
     msg |-> <<>>, written |-> <<>>, timestamp |-> <<>>, sequence |-> 0,
     timezone_format |-> "", timestamp_format |-> "", compression |-> "",
     max_versions |-> NoLimit, listing |-> <<>>, cause |-> ""]

Init ==
    /\ \E F \in SUBSET ForeignFiles :
          /\ Cardinality(F) <= MaxForeign
          /\ versions_path = [n \in F |-> File(0, "none", StartTime - 60)]
    /\ work_dir = [n \in {ATxt, StrayVersion} |->
                      IF n = ATxt THEN File(1, "none", StartTime - 120)
                      ELSE File(0, "none", StartTime - 60)]
    /\ now = StartTime
    /\ last = NoCall
    /\ before = [versions |-> versions_path, work |-> work_dir]
    /\ streak = NoStreak
    /\ ops = 0
    /\ ticks = 0

(***************************************************************************)
(* _FileOperations                                                         *)
(***************************************************************************)
\* the times copied, the permission bits left as they are
preserve_times_only(source, dest) ==
    [dest EXCEPT !.mtime = source.mtime, !.atime = source.atime]

\* _FileMetadata.preserve_metadata(source, dest): the file at dest afterwards
preserve_metadata(source, dest) ==
    [dest EXCEPT !.mtime = source.mtime, !.atime = source.atime, !.mode = source.mode]

\* get_timestamp(file_path, source, tz_format)
get_timestamp(file, source, tz_format) ==
    LET timestamp == IF source = "mod" THEN file.mtime ELSE now
    IN  strftime(IF tz_format = "utc" THEN timestamp - UtcOffset ELSE timestamp)

\* compress_file(source_path, dest_path, compression) followed by
\* preserve_metadata: the file written at dest_path
compress_file(file, compression) ==
    preserve_metadata(file, IF compression = "none" THEN file
                            ELSE File(file.data, compression, now))

(***************************************************************************)
(* FileVersioning: the private helpers                                     *)
(***************************************************************************)
\* a glob whose pattern matches every file of the directory
glob_everything(d, prefix) == Names(d)

\* the index of the "]" that closes the character class opened at pat[j],
\* 0 if none does ("!" and a "]" right after the opening are members)
ClassEnd(pat, j) ==
    LET first == IF j + 1 <= Len(pat) /\ pat[j + 1] = "!" THEN j + 2 ELSE j + 1
        ends == {k \in (first + 1)..Len(pat) : pat[k] = "]"}
    IN  IF ends = {} THEN 0 ELSE CHOOSE k \in ends : \A e \in ends : k <= e

\* fnmatch of name from index i against pat from index j: "*" stands for
\* any characters, "?" for one, "[...]" for one of the characters listed
\* ("[!...]" for one not listed; the patterns of the model hold no ranges)
RECURSIVE MatchFrom(_, _, _, _)
MatchFrom(name, i, pat, j) ==
    IF j > Len(pat) THEN i > Len(name)
    ELSE IF pat[j] = "*"
    THEN j = Len(pat) \/ \E k \in i..(Len(name) + 1) : MatchFrom(name, k, pat, j + 1)
    ELSE IF i > Len(name) THEN FALSE
    ELSE IF pat[j] = "?" THEN MatchFrom(name, i + 1, pat, j + 1)
    ELSE IF pat[j] = "[" /\ ClassEnd(pat, j) # 0
    THEN /\ IF pat[j + 1] = "!"
            THEN \A k \in (j + 2)..(ClassEnd(pat, j) - 1) : pat[k] # name[i]
            ELSE \E k \in (j + 1)..(ClassEnd(pat, j) - 1) : pat[k] = name[i]
         /\ MatchFrom(name, i + 1, pat, ClassEnd(pat, j) + 1)
    ELSE pat[j] = name[i] /\ MatchFrom(name, i + 1, pat, j + 1)

fnmatch(name, pat) == MatchFrom(name, 1, pat, 1)

\* Path.glob(prefix + "*") in directory d
glob(d, prefix) == {n \in Names(d) : fnmatch(n, prefix \o <<"*">>)}

Max(S) == IF S = {} THEN 0 ELSE CHOOSE x \in S : \A y \in S : x >= y

\* _get_next_sequence(timestamp, base_name) on directory d: err names what
\* the _VersionInfo constructor raised on a matching file, "" if nothing
_get_next_sequence(d, timestamp, base_name) ==
    LET next(existing) ==
            LET errs == {info.err : info \in existing} \ {""}
                sequences == {info.sequence : info \in existing} \ {0}
            IN  IF existing = {} THEN [err |-> "", sequence |-> 1]
                ELSE IF errs # {} THEN [err |-> CHOOSE e \in errs : TRUE, sequence |-> 0]
                ELSE [err |-> "", sequence |-> Max(sequences) + 1]
    IN  next({_VersionInfo(n) : n \in glob(d, base_name \o delimiter \o timestamp \o <<"_">>)})

\* the test of the sequence left out
exhausted_never(sequence) == FALSE

\* the test _get_version_name makes on the sequence
exhausted(sequence) == sequence > MAX_SEQUENCE

\* _get_version_name and _get_version_path: err is "RuntimeError" past
\* MAX_SEQUENCE, or what _get_next_sequence raised
_get_version_path(d, source_name, timestamp, cfg) ==
    LET base == stem(source_name)
        ext == suffix(source_name)
        path(next) ==
            IF next.err # "" THEN [err |-> next.err, name |-> <<>>, sequence |-> 0]
            ELSE IF exhausted(next.sequence)
            THEN [err |-> "RuntimeError", name |-> <<>>, sequence |-> 0]
            ELSE [err |-> "", sequence |-> next.sequence,
                  name |-> VersionName(base, timestamp, next.sequence, cfg.timezone_format,
                                       cfg.timestamp_format, ext, cfg.compression)]
    IN  path(_get_next_sequence(d, timestamp, base))

\* the key comparison with the sort direction lost (reverse=True forgotten)
KeyLeq_ascending(x, y) ==
    \/ y.timestamp[1] < x.timestamp[1]
    \/ y.timestamp[1] = x.timestamp[1] /\ y.timestamp[2] < x.timestamp[2]
    \/ y.timestamp = x.timestamp /\ y.sequence <= x.sequence

\* the sort key of _get_versions, (timestamp, sequence), compared on the
\* decoded records x and y
KeyLeq(x, y) ==
    \/ x.timestamp[1] < y.timestamp[1]
    \/ x.timestamp[1] = y.timestamp[1] /\ x.timestamp[2] < y.timestamp[2]
    \/ x.timestamp = y.timestamp /\ x.sequence <= y.sequence

\* the lists of the records S in any order (the sort left out)
RECURSIVE SortedDesc_unsorted(_)
SortedDesc_unsorted(S) ==
    IF S = {} THEN {<<>>}
    ELSE UNION {{<<m>> \o t : t \in SortedDesc_unsorted(S \ {m})} : m \in S}

\* every list of the records S in descending key order (records with equal
\* keys keep the order the directory listing gave them, which is arbitrary)
RECURSIVE SortedDesc(_)
SortedDesc(S) ==
    IF S = {} THEN {<<>>}
    ELSE UNION {{<<m>> \o t : t \in SortedDesc(S \ {m})} :
                m \in {x \in S : \A y \in S : KeyLeq(y, x)}}

\* _get_versions(file_path) on directory d: the sorted lists it can return,
\* each path with the record _VersionInfo decodes from it; errs names what
\* the sort key raised on a matching file that does not decode
_get_versions(d, file_name) ==
    LET sorted(versions) ==
            LET errs == {info.err : info \in versions} \ {""}
            IN  IF errs # {} THEN [errs |-> errs, lists |-> {}]
                ELSE [errs |-> {}, lists |-> SortedDesc(versions)]
    IN  sorted({_VersionInfo(n) : n \in glob(d, stem(file_name) \o delimiter)})

\* the keys of a defaultdict filled along the list, in insertion order
RECURSIVE Keys(_, _)
Keys(values, seen) ==
    IF Len(values) = 0 THEN <<>>
    ELSE IF values[1] \in seen THEN Keys(Tail(values), seen)
    ELSE <<values[1]>> \o Keys(Tail(values), seen \cup {values[1]})

\* the consistency check without the test on the timezone formats
consistency_msg_source_only(all_timezone, all_timesource) ==
    IF Len(all_timesource) > 1
    THEN <<"Multiple", "source", "types", "not", "allowed:">> \o all_timesource
    ELSE <<>>

\* the consistency check of _cleanup_old_versions: the message it returns for
\* the timezone formats and timestamp sources tallied, <<>> if they agree
consistency_msg(all_timezone, all_timesource) ==
    IF Len(all_timezone) > 1
    THEN <<"Multiple", "timezone", "types", "not", "allowed:">> \o all_timezone
    ELSE IF Len(all_timesource) > 1
    THEN <<"Multiple", "source", "types", "not", "allowed:">> \o all_timesource
    ELSE <<>>

\* the loop written with >= : it pops one version too many
pop_count_one_more(len, max_versions) == IF len >= max_versions THEN len - max_versions + 1 ELSE 0

\* the number of versions the loop "while len(versions) > max_versions" pops
pop_count(len, max_versions) == IF len > max_versions THEN len - max_versions ELSE 0

\* _cleanup_old_versions(source_path) on directory d under max_versions:
\* every outcome it can have; err "" and the returned (removed, msg), or the
\* exception it lets through; dir is the directory it leaves
_cleanup_old_versions(d, source_name, max_versions) ==
    IF max_versions = NoLimit
    THEN {[err |-> "", removed |-> -1, msg |-> <<>>, dir |-> d]}
    ELSE
      LET cleanup(got) ==
          IF got.errs # {}
          THEN {[err |-> e, removed |-> 0, msg |-> <<>>, dir |-> d] : e \in got.errs}
          ELSE
            {LET all_timezone == Keys([i \in 1..Len(versions) |-> versions[i].timezone_fmt], {})
                 all_timesource == Keys([i \in 1..Len(versions) |-> versions[i].timestamp_src], {})
                 msg == consistency_msg(all_timezone, all_timesource)
                 files_removed == pop_count(Len(versions), max_versions)
                 popped == {versions[i].filename : i \in (Len(versions) - files_removed + 1)..Len(versions)}
             IN  IF msg # <<>>
                 THEN [err |-> "", removed |-> 0, msg |-> msg, dir |-> d]
                 ELSE [err |-> "", removed |-> files_removed, msg |-> <<>>, dir |-> Unlink(d, popped)]
             : versions \in got.lists}
      IN  cleanup(_get_versions(d, source_name))

(***************************************************************************)
(* FileVersioning.create_version                                           *)
(***************************************************************************)
\* the streak after a create of file_name that computed timestamp and wrote
\* the version numbered sequence into directory d
NextStreak(d, file_name, timestamp, sequence) ==
    IF streak.file = file_name /\ streak.ts = timestamp
    THEN [streak EXCEPT !.seqs = Append(@, sequence)]
    ELSE IF glob(d, stem(file_name) \o delimiter \o timestamp \o <<"_">>) = {}
    THEN [file |-> file_name, ts |-> timestamp, seqs |-> <<sequence>>]
    ELSE NoStreak

\* no except clause: the exception raised inside the try block gets out
surfaces_unwrapped(cause) == cause

\* the exception a call raises for the exception cause raised inside its try
\* block: "except _VersionError" and "except Exception" both raise OSError
surfaces(cause) == "OSError"

\* the existence check made inside the try block: the failure is wrapped
source_missing_wrapped == "OSError"

\* the exception create_version raises for a source path that does not exist
source_missing == "FileNotFoundError"

\* the count of _cleanup_old_versions handed on as it is
removed_count_raw(count) == count

\* the count create_version returns for the count of _cleanup_old_versions
removed_count(count) == IF count < 0 THEN 0 ELSE count

CallOf(op, file_name, cfg) ==
    [NoCall EXCEPT !.op = op, !.file = file_name,
                   !.timezone_format = cfg.timezone_format,
                   !.timestamp_format = cfg.timestamp_format,
                   !.compression = cfg.compression,
                   !.max_versions = cfg.max_versions]

create_version(file_name, cfg) ==
    /\ ops < MaxOps
    /\ ops' = ops + 1
    /\ before' = [versions |-> versions_path, work |-> work_dir]
    /\ UNCHANGED <<work_dir, now, ticks>>
    /\ IF file_name \notin Names(work_dir)
       THEN /\ last' = [NoCall EXCEPT !.op = "create", !.file = file_name,
                                      !.status = source_missing]
            /\ streak' = NoStreak
            /\ UNCHANGED versions_path
       ELSE
         \E timestamp \in {get_timestamp(work_dir[file_name], cfg.timestamp_format,
                                         cfg.timezone_format)} :
         \E version_path \in {_get_version_path(versions_path, file_name, timestamp, cfg)} :
         \E call \in {[CallOf("create", file_name, cfg) EXCEPT !.timestamp = timestamp,
                            !.written = version_path.name,
                            !.sequence = version_path.sequence]} :
            IF version_path.err # ""
            THEN /\ last' = [call EXCEPT !.status = surfaces(version_path.err), !.cause = version_path.err]
                 /\ streak' = NoStreak
                 /\ UNCHANGED versions_path
            ELSE
              /\ streak' = NextStreak(versions_path, file_name, timestamp, version_path.sequence)
              /\ \E cleanup \in _cleanup_old_versions(
                                    Write(versions_path, version_path.name,
                                          compress_file(work_dir[file_name], cfg.compression)),
                                    file_name, cfg.max_versions) :
                    /\ versions_path' = cleanup.dir
                    /\ IF cleanup.err # ""
                       THEN last' = [call EXCEPT !.status = surfaces(cleanup.err), !.cause = cleanup.err]
                       ELSE last' = [call EXCEPT !.status = "ok",
                                                 !.path = version_path.name,
                                                 !.loc = "versions",
                                                 !.removed = removed_count(cleanup.removed),
                                                 !.msg = cleanup.msg]

(***************************************************************************)
(* FileVersioning.list_versions                                            *)
(***************************************************************************)
list_versions(file_name) ==
    /\ ops < MaxOps
    /\ ops' = ops + 1
    /\ before' = [versions |-> versions_path, work |-> work_dir]
    /\ UNCHANGED <<versions_path, work_dir, now, ticks, streak>>
    /\ \E got \in {_get_versions(versions_path, file_name)} :
       LET call == [NoCall EXCEPT !.op = "list", !.file = file_name]
       IN  IF got.errs # {}
           THEN \E e \in got.errs : last' = [call EXCEPT !.status = e, !.cause = e]
           ELSE \E versions \in got.lists :
                   last' = [call EXCEPT !.status = "ok",
                               !.listing = [i \in 1..Len(versions) |->
                                   LET version == versions[i]
                                   IN  [path |-> version.filename,
                                        timestamp |-> version.timestamp,
                                        sequence |-> version.sequence,
                                        timezone_fmt |-> version.timezone_fmt,
                                        timestamp_src |-> version.timestamp_src]]]

(***************************************************************************)
(* FileVersioning.remove_version                                           *)
(***************************************************************************)
\* Path.resolve(): the directory the path really lies in, for a path given
\* in the versions directory, through a symbolic link to it ("link"), or in
\* the working directory
resolve(loc) == IF loc = "link" THEN "versions" ELSE loc

\* the containment check left out
relative_to_anywhere(loc) == TRUE

\* Path.relative_to(self.versions_path) succeeds
relative_to(loc) == loc = "versions"

\* a name at which no file exists
NoSuchFile == <<"n", "o", "n", "e">>

\* the test without the check of sequence 0
invalid_version_undecoded_only(info) == info.err # ""

\* the test remove_version makes on the decoded record: the name does not
\* decode, or decodes with sequence 0
invalid_version(info) == info.err # "" \/ info.sequence = 0

remove_version(loc, name) ==
    /\ ops < MaxOps
    /\ ops' = ops + 1
    /\ before' = [versions |-> versions_path, work |-> work_dir]
    /\ streak' = NoStreak
    /\ UNCHANGED <<now, ticks>>
    /\ \E info \in {_VersionInfo(name)} :
       LET version_path == resolve(loc)
           dir == IF version_path = "versions" THEN versions_path ELSE work_dir
           call == [NoCall EXCEPT !.op = "remove", !.path = name, !.loc = loc]
       IN  IF name \notin Names(dir)
           THEN /\ last' = [call EXCEPT !.status = "FileNotFoundError"]
                /\ UNCHANGED <<versions_path, work_dir>>
           ELSE IF ~relative_to(version_path)
           THEN /\ last' = [call EXCEPT !.status = "OSError", !.cause = "ValueError"]
                /\ UNCHANGED <<versions_path, work_dir>>
           ELSE IF invalid_version(info)
           THEN /\ last' = [call EXCEPT !.status = surfaces(IF info.err # "" THEN info.err
                                                              ELSE "_VersionError"),
                                        !.cause = IF info.err # "" THEN info.err ELSE "_VersionError"]
                /\ UNCHANGED <<versions_path, work_dir>>
           ELSE /\ last' = [call EXCEPT !.status = "ok"]
                /\ IF version_path = "versions"
                   THEN versions_path' = Unlink(versions_path, {name}) /\ UNCHANGED work_dir
                   ELSE work_dir' = Unlink(work_dir, {name}) /\ UNCHANGED versions_path

(***************************************************************************)
(* The environment: the clock and the owner of the source file             *)
(***************************************************************************)
\* the source file is rewritten: new content, modification time now
Modify(d, file_name, time) == [d EXCEPT ![file_name] = File(@.data + 1, "none", time)]

\* a second passes; the owner of a.txt may rewrite it in that second
Tick ==
    /\ ticks < MaxTicks
    /\ ticks' = ticks + 1
    /\ now' = now + 1
    /\ \/ UNCHANGED work_dir
       \/ work_dir' = Modify(work_dir, ATxt, now')
    /\ last' = NoCall
    /\ before' = [versions |-> versions_path, work |-> work_dir]
    /\ UNCHANGED <<versions_path, streak, ops>>

(***************************************************************************)
(* Specification                                                           *)
(***************************************************************************)
Create == \E file_name \in SourceNames, cfg \in Configs : create_version(file_name, cfg)

List == \E file_name \in SourceNames \cap Names(work_dir) : list_versions(file_name)

\* the paths remove_version is called on: every file of the versions
\* directory, by its own path and through the link, a path at which nothing
\* exists, and every file of the working directory
Remove ==
    \/ \E name \in Names(versions_path) \cup {NoSuchFile} : remove_version("versions", name)
    \/ \E name \in Names(versions_path) : remove_version("link", name)
    \/ \E name \in Names(work_dir) : remove_version("work", name)

Next == Create \/ List \/ Remove \/ Tick

Spec == Init /\ [][Next]_vars

(***************************************************************************)
(* Properties                                                              *)
(***************************************************************************)
\* the version files of file_name in directory d: the names that start with
\* the stem of the file and the delimiter
Matches(d, file_name) == {n \in Names(d) : StartsWith(n, stem(file_name) \o delimiter)}

Infos(S) == {_VersionInfo(n) : n \in S}

\* the last call was a create_version that returned
Created == last.op = "create" /\ last.status = "ok"

\* the version set the retention of the last create examined: the versions of
\* the file on disk when the call started and the version it wrote
Examined == Infos(Matches(before.versions, last.file) \cup {last.written})

\* every record decodes and all share one timezone format and one source
Homogeneous(S) ==
    /\ \A x \in S : x.err = ""
    /\ Cardinality({x.timezone_fmt : x \in S}) <= 1
    /\ Cardinality({x.timestamp_src : x \in S}) <= 1

Min(a, b) == IF a < b THEN a ELSE b

\* the words of a message
Range(f) == {f[i] : i \in DOMAIN f}

\* version x is no newer than version y by (timestamp, sequence)
NoNewerThan(x, y) ==
    \/ x.timestamp[1] < y.timestamp[1]
    \/ x.timestamp[1] = y.timestamp[1] /\ x.timestamp[2] < y.timestamp[2]
    \/ x.timestamp = y.timestamp /\ x.sequence <= y.sequence

\* the names the last call removed from the versions directory
Gone == (Names(before.versions) \cup {last.written}) \ Names(versions_path)

\* C1: after a create_version that returned under max_versions = K, if the
\* versions of the file share one timezone format and one timestamp source,
\* at most K version files of the file are left and they are the K greatest
\* by (timestamp, sequence) of the versions examined.
C1_RetentionInvariant ==
    (Created /\ last.max_versions # NoLimit /\ Homogeneous(Examined)) =>
        LET kept == Infos(Matches(versions_path, last.file))
        IN  /\ Cardinality(kept) <= last.max_versions
            /\ kept \subseteq Examined
            /\ Cardinality(kept) = Min(last.max_versions, Cardinality(Examined))
            /\ \A x \in kept, y \in Examined \ kept : NoNewerThan(y, x)

\* a create under a limit found more homogeneous versions than the limit
C1_Witness ==
    /\ Created /\ last.max_versions # NoLimit /\ Homogeneous(Examined)
    /\ Cardinality(Examined) > last.max_versions
    /\ Cardinality(Matches(versions_path, last.file)) = last.max_versions

\* C2: when create_version returns, the path it returns names a file that
\* exists in the versions directory.
C2_ReturnedPathExists ==
    Created => (last.loc = "versions" /\ last.path \in Names(versions_path))

\* C3: consecutive creates of one file that compute the same timestamp,
\* started where the file had no version at that timestamp, are given the
\* sequences 1, 2, ..., N in this order.
C3_SequenceMonotonicity ==
    \A i \in 1..Len(streak.seqs) : streak.seqs[i] = i

\* C4: the count create_version returns is the number of version files it
\* deleted; under max_versions = K with n homogeneous versions on disk it is
\* max(0, n + 1 - K), and the deleted files are the oldest by (timestamp,
\* sequence) of the versions examined.
C4_RemovedCount ==
    Created =>
        /\ last.removed = Cardinality(Gone)
        /\ (last.max_versions # NoLimit /\ Homogeneous(Examined)) =>
              LET n == Cardinality(Matches(before.versions, last.file))
                  gone == Infos(Gone)
              IN  /\ last.removed = (IF n + 1 > last.max_versions
                                     THEN n + 1 - last.max_versions ELSE 0)
                  /\ gone \subseteq Examined
                  /\ \A x \in gone, y \in Examined \ gone : NoNewerThan(x, y)

\* a create returned a positive count
C4_Witness == Created /\ last.removed >= 1 /\ Homogeneous(Examined)

\* the case of C5: a create of a file under a LOCAL/modified-time
\* configuration, when the only version of the file on disk is one
\* UTC/modified-time version
OneUtcThenLocal ==
    /\ last.op = "create"
    /\ last.timezone_format = "loc" /\ last.timestamp_format = "mod"
    /\ LET on_disk == Infos(Matches(before.versions, last.file))
       IN  /\ Cardinality(on_disk) = 1
           /\ \A x \in on_disk : x.err = "" /\ x.timezone_fmt = "utc" /\ x.timestamp_src = "mod"

\* the call returned a warning with the word "timezone" and removed nothing
TimezoneWarningNothingRemoved ==
    /\ last.status = "ok"
    /\ "timezone" \in Range(last.msg)
    /\ last.removed = 0
    /\ Gone = {}

Mixed ==
    LET decoded == {x \in Examined : x.err = ""}
    IN  \/ Cardinality({x.timezone_fmt : x \in decoded}) > 1
        \/ Cardinality({x.timestamp_src : x \in decoded}) > 1

\* C6: with max_versions set, a create whose version set (the version just
\* written included) holds more than one timezone format or timestamp source
\* succeeds: it returns the path written, a count of 0 and a warning naming
\* the conflicting values, and every file is still on disk.
C6_ConflictNeverAborts ==
    (last.op = "create" /\ last.written # <<>> /\ last.max_versions # NoLimit /\ Mixed) =>
        /\ last.status = "ok"
        /\ last.path = last.written
        /\ last.removed = 0
        /\ \/ {"utc", "loc"} \subseteq Range(last.msg)
           \/ {"mod", "sto"} \subseteq Range(last.msg)
        /\ Names(versions_path) = Names(before.versions) \cup {last.written}

\* C7: list_versions returns, without raising, the records of the matching
\* files that decode and drops the others.
C7_ListDropsUndecodable ==
    last.op = "list" =>
        /\ last.status = "ok"
        /\ {last.listing[i].path : i \in 1..Len(last.listing)} =
              {n \in Matches(versions_path, last.file) : Decodes(n)}

\* C8: a create under max_versions that wrote its version while a file
\* matching the pattern does not decode does not raise: it returns the path
\* of the version it wrote and reports the failure in the message.
C8_DecodeFailureNotFatal ==
    (/\ last.op = "create" /\ last.written # <<>> /\ last.max_versions # NoLimit
     /\ \E x \in Examined : x.err # "") =>
        /\ last.status = "ok"
        /\ last.path = last.written
        /\ last.msg # <<>>

\* the last call was remove_version on a path at which a file existed
RemovedExisting ==
    /\ last.op = "remove"
    /\ last.path \in Names(IF resolve(last.loc) = "versions" THEN before.versions ELSE before.work)

\* no file of either directory was deleted or changed by the last call
NothingChanged == versions_path = before.versions /\ work_dir = before.work

\* C9: remove_version on an existing path that does not resolve into the
\* versions directory fails with an OS error and leaves the file in place.
C9_ContainmentCheck ==
    (RemovedExisting /\ resolve(last.loc) # "versions") =>
        /\ last.status = "OSError"
        /\ last.path \in Names(work_dir)
        /\ NothingChanged

\* remove_version was called on the validly named version file outside
C9_Witness ==
    /\ RemovedExisting /\ last.loc = "work" /\ last.path = StrayVersion
    /\ Decodes(last.path) /\ _VersionInfo(last.path).sequence >= 1
    /\ last.status = "OSError"

\* C10: remove_version on a file inside the versions directory whose name
\* does not decode, or decodes with sequence 0, fails with an OS error and
\* does not delete the file.
C10_InvalidVersionNotRemoved ==
    (/\ RemovedExisting /\ resolve(last.loc) = "versions"
     /\ (~Decodes(last.path) \/ _VersionInfo(last.path).sequence = 0)) =>
        /\ last.status = "OSError"
        /\ last.path \in Names(versions_path)
        /\ NothingChanged

\* remove_version was called on the version numbered 000
C10_Witness ==
    /\ RemovedExisting /\ resolve(last.loc) = "versions"
    /\ Decodes(last.path) /\ _VersionInfo(last.path).sequence = 0
    /\ last.status = "OSError"

\* the files of directory d that _get_next_sequence examines for the last
\* create: those of the file at the timestamp the call computed
AtTimestamp(d) ==
    {n \in Names(d) : StartsWith(n, stem(last.file) \o delimiter \o last.timestamp \o <<"_">>)}

\* C14: when the highest sequence among the versions of the file at the
\* timestamp is 999, create_version fails with an OS error, writes no file
\* and leaves the versions directory unchanged.
C14_SequenceExhaustion ==
    (/\ last.op = "create" /\ last.timestamp # <<>>
     /\ \A x \in Infos(AtTimestamp(before.versions)) : x.err = ""
     /\ Max({x.sequence : x \in Infos(AtTimestamp(before.versions))}) = MAX_SEQUENCE) =>
        /\ last.status = "OSError"
        /\ last.written = <<>>
        /\ NothingChanged

\* a create found version 999 at its timestamp and was refused
C14_Witness ==
    /\ last.op = "create" /\ last.timestamp # <<>>
    /\ FullSeqFile \in AtTimestamp(before.versions)
    /\ last.status = "OSError" /\ last.cause = "RuntimeError"

PatternMatches(d, file_name) == glob(d, stem(file_name) \o delimiter)

\* C16: when every file matching the pattern decodes, list_versions returns
\* one record per matching file, newest first by (timestamp, sequence), each
\* with the sequence, timezone format and timestamp source of its file name;
\* with no match the list is empty.
C16_ListOrdered ==
    (last.op = "list" /\ \A n \in PatternMatches(versions_path, last.file) : Decodes(n)) =>
        /\ last.status = "ok"
        /\ Len(last.listing) = Cardinality(PatternMatches(versions_path, last.file))
        /\ {last.listing[i].path : i \in 1..Len(last.listing)} = PatternMatches(versions_path, last.file)
        /\ \A i \in 1..Len(last.listing) :
              /\ last.listing[i].sequence = _VersionInfo(last.listing[i].path).sequence
              /\ last.listing[i].timezone_fmt = _VersionInfo(last.listing[i].path).timezone_fmt
              /\ last.listing[i].timestamp_src = _VersionInfo(last.listing[i].path).timestamp_src
        /\ \A i \in 1..(Len(last.listing) - 1) :
              NoNewerThan(_VersionInfo(last.listing[i + 1].path), _VersionInfo(last.listing[i].path))

\* a listing of two versions or more
C16_Witness == last.op = "list" /\ last.status = "ok" /\ Len(last.listing) >= 2

\* C19: with max_versions unset create_version deletes and changes no file
\* of the versions directory, and when it returns the count is 0 and the
\* warning empty.
C19_NoLimitNoRetention ==
    (last.op = "create" /\ last.max_versions = NoLimit) =>
        /\ \A n \in Names(before.versions) :
              n \in Names(versions_path) /\ versions_path[n] = before.versions[n]
        /\ Created => (last.removed = 0 /\ last.msg = <<>>)

\* a create without limit returned where the file already had a version
C19_Witness ==
    Created /\ last.max_versions = NoLimit /\ Matches(before.versions, last.file) # {}

\* C20: create_version on a source path at which no file exists raises
\* FileNotFoundError, writes nothing and leaves both directories as they were.
C20_MissingSource ==
    (last.op = "create" /\ last.file \notin Names(before.work)) =>
        /\ last.status = "FileNotFoundError"
        /\ last.written = <<>>
        /\ NothingChanged

\* the missing source was versioned while the versions directory held files
C20_Witness ==
    /\ last.op = "create" /\ last.file = GoneTxt /\ last.status = "FileNotFoundError"
    /\ Names(versions_path) # {}

(***************************************************************************)
(* The filename codec on its own: _get_version_name and _get_version_path  *)
(* encode, _VersionInfo decodes.  The last call holds the arguments, the   *)
(* name and the decoded record; the directories stay empty.                *)
(***************************************************************************)
\* stems of source files: plain, ending in a hyphen, holding the delimiter,
\* holding a dot
CodecBases == {<<"a">>, <<"a", "-">>, <<"a", "-", "-", "b">>, <<"a", ".", "b">>}
CodecTimestamps == {strftime(StartTime), strftime(StartTime - UtcOffset)}
CodecSequences == {1, 10, MAX_SEQUENCE}
CodecExts == {<<>>, <<".", "t", "x", "t">>}

\* the name of a version as create_version writes it
SampleName == VersionName(<<"a">>, strftime(StartTime), 1, "loc", "mod", <<".", "t", "x", "t">>, "none")

\* the names one edit away from SampleName: one character replaced, inserted
\* or deleted; and SampleName with a compression suffix
EditChars == {"x", "-", ".", "_", "9"}
EditedNames ==
    {SampleName, SampleName \o <<".", "g", "z">>}
    \cup {[SampleName EXCEPT ![i] = c] : i \in 1..Len(SampleName), c \in EditChars}
    \cup {SubSeq(SampleName, 1, i - 1) \o <<c>> \o SubSeq(SampleName, i, Len(SampleName)) :
            i \in 1..(Len(SampleName) + 1), c \in EditChars}
    \cup {SubSeq(SampleName, 1, i - 1) \o SubSeq(SampleName, i + 1, Len(SampleName)) :
            i \in 1..Len(SampleName)}

NoArgs ==
    [op |-> "name", encoded |-> FALSE, base |-> <<>>, ts |-> <<>>, seq |-> 0, tz |-> "",
     src |-> "", ext |-> <<>>, compression |-> "none", name |-> <<>>,
     info |-> _VersionInfo(<<>>)]

CodecInit ==
    /\ versions_path = [n \in {} |-> File(0, "none", 0)]
    /\ work_dir = [n \in {} |-> File(0, "none", 0)]
    /\ now = StartTime
    /\ before = [versions |-> versions_path, work |-> work_dir]
    /\ streak = NoStreak
    /\ ops = 0
    /\ ticks = 0
    /\ \/ \E base \in CodecBases, ts \in CodecTimestamps, seq \in CodecSequences,
            tz \in TimezoneFormat, src \in TimestampSource, ext \in CodecExts,
            compression \in {"none", "gz"} :
             last = [NoArgs EXCEPT !.op = "args", !.base = base, !.ts = ts, !.seq = seq,
                                   !.tz = tz, !.src = src, !.ext = ext,
                                   !.compression = compression]
       \/ \E name \in EditedNames : last = [NoArgs EXCEPT !.name = name]

\* _get_version_name and _get_version_path on the arguments
Encode ==
    /\ last.op = "args"
    /\ last' = [last EXCEPT !.op = "name", !.encoded = TRUE,
                            !.name = VersionName(last.base, last.ts, last.seq, last.tz,
                                                 last.src, last.ext, last.compression)]
    /\ UNCHANGED <<versions_path, work_dir, now, before, streak, ops, ticks>>

\* _VersionInfo on the name
Decode ==
    /\ last.op = "name"
    /\ last' = [last EXCEPT !.op = "decoded", !.info = _VersionInfo(last.name)]
    /\ UNCHANGED <<versions_path, work_dir, now, before, streak, ops, ticks>>

CodecNext == Encode \/ Decode

CodecSpec == CodecInit /\ [][CodecNext]_vars

\* C12: decoding the name the encoder builds gives back the base name, the
\* timestamp, the sequence, the timezone format and the timestamp source.
C12_FilenameRoundTrip ==
    (last.op = "decoded" /\ last.encoded) =>
        /\ last.info.err = ""
        /\ last.info.original_name = last.base
        /\ last.info.ts = last.ts
        /\ last.info.sequence = last.seq
        /\ last.info.timezone_fmt = last.tz
        /\ last.info.timestamp_src = last.src

\* the name is a version name as the format fixes it: three segments, the
\* second a timestamp, an underscore and three digits, the third a
\* specification followed by nothing or by extensions
WellFormed(name) ==
    LET segments(parts) ==
            /\ Len(parts) = 3
            /\ Len(parts[2]) = 19
            /\ strptime_ok(SubSeq(parts[2], 1, 15))
            /\ parts[2][16] = "_"
            /\ isdigit(SubSeq(parts[2], 17, 19))
            /\ \E tz \in TimezoneFormat, src \in TimestampSource :
                  /\ StartsWith(parts[3], SpecChars(tz, src))
                  /\ (Len(parts[3]) > 7 => parts[3][8] = ".")
    IN  segments(split(name, delimiter))

\* C13: a name decodes only if it is well formed, and every other name
\* raises _VersionError and gives no field of a record.
C13_DecodeStrictness ==
    last.op = "decoded" =>
        /\ last.info.err = "" => WellFormed(last.name)
        /\ last.info.err # "" =>
              /\ last.info.err = "_VersionError"
              /\ last.info.original_name = <<>> /\ last.info.ts = <<>>

(***************************************************************************)
(* FileVersioning.restore_version                                          *)
(***************************************************************************)
\* the sources restored: a.txt, a file without suffix, and files whose own
\* suffix is one of the compression suffixes
ABare == <<"a">>
AGz == <<"a", ".", "g", "z">>
AUpperXz == <<"a", ".", "X", "Z">>
RestoreSources == {ATxt, ABare, AGz, AUpperXz}

\* the targets: a path at which nothing exists yet, a directory, and a path
\* inside a directory that does not exist yet
RTxt == <<"r", ".", "t", "x", "t">>
SubDir == <<"d">>
NewDir == <<"n">>
NestedTxt == NewDir \o <<"/">> \o RTxt
RestoreTargets == {RTxt, SubDir, NestedTxt} \cup RestoreSources

\* Path.parent: <<>> stands for the working directory itself
parent(path) == IF RFind(path, "/") <= 0 THEN <<>> ELSE Slice(path, 0, RFind(path, "/"))

\* Path.is_dir() in directory d
is_dir(d, path) == path \in Names(d) /\ d[path].enc = "dir"

\* Path.mkdir(parents=True, exist_ok=True) of path in directory d
mkdir(d, path) ==
    IF path = <<>> \/ path \in Names(d) THEN d ELSE Write(d, path, File(0, "dir", now))

\* the bytes a source starts with: some text, or a gzip stream of that text
PlainData == 1
PackedData == 10
\* the bytes of an empty file
EmptyData == 0

\* what gzip/bz2/lzma read from the bytes data that compress_file did not
\* write: the text inside a gzip stream, or 0 (the bytes are no such stream)
Inflate(data, compression) ==
    IF data = PackedData /\ compression = "gz" THEN PlainData ELSE EmptyData

\* decompress_file(source_path, dest_path, compression) followed by
\* preserve_metadata: the file left at dest_path, and err when the decoder
\* raised (dest_path is opened for writing before the first read)
decompress_file(file, compression) ==
    IF compression = "none" THEN [err |-> "", file |-> preserve_metadata(file, file)]
    ELSE IF file.enc = compression
    THEN [err |-> "", file |-> preserve_metadata(file, File(file.data, "none", now))]
    ELSE IF file.enc = "none" /\ Inflate(file.data, compression) # EmptyData
    THEN [err |-> "", file |-> preserve_metadata(file, File(Inflate(file.data, compression),
                                                             "none", now))]
    ELSE [err |-> "BadStream", file |-> File(EmptyData, "none", now)]

\* the two checks made in the other order
precondition_target_first(name, target) ==
    IF is_dir(work_dir, target) THEN "OSError"
    ELSE IF name \notin Names(versions_path) THEN "FileNotFoundError"
    ELSE ""

\* lines 177-181: the checks restore_version makes before it writes, and
\* the exception the first failing one raises
precondition(name, target) ==
    IF name \notin Names(versions_path) THEN "FileNotFoundError"
    ELSE IF is_dir(work_dir, target) THEN "OSError"
    ELSE ""

restore_version(name, target) ==
    /\ ops < MaxOps
    /\ ops' = ops + 1
    /\ before' = [versions |-> versions_path, work |-> work_dir]
    /\ streak' = NoStreak
    /\ UNCHANGED <<versions_path, now, ticks>>
    /\ \E call \in {[NoCall EXCEPT !.op = "restore", !.path = name, !.loc = "versions",
                                   !.written = target]} :
          IF precondition(name, target) # ""
          THEN /\ last' = [call EXCEPT !.status = precondition(name, target)]
               /\ UNCHANGED work_dir
          ELSE \E restored \in {decompress_file(versions_path[name], from_extension(name))} :
                  /\ work_dir' = Write(mkdir(work_dir, parent(target)), target, restored.file)
                  /\ last' = IF restored.err # ""
                             THEN [call EXCEPT !.status = surfaces(restored.err), !.cause = restored.err]
                             ELSE [call EXCEPT !.status = "ok",
                                               !.compression = from_extension(name)]

\* one source file and one directory in the working directory, versions
\* directory empty
RestoreInit ==
    /\ versions_path = <<>>
    /\ \E file_name \in RestoreSources :
       \E data \in IF from_extension(file_name) = "gz" THEN {PlainData, PackedData}
                   ELSE {PlainData} :
          work_dir = [n \in {file_name, SubDir} |->
                         IF n = SubDir THEN File(0, "dir", StartTime - 120)
                         ELSE File(data, "none", StartTime - 120)]
    /\ now = StartTime
    /\ last = NoCall
    /\ before = [versions |-> versions_path, work |-> work_dir]
    /\ streak = NoStreak
    /\ ops = 0
    /\ ticks = 0

RestoreCreate ==
    \E file_name \in RestoreSources \cap Names(work_dir), cfg \in Configs :
        create_version(file_name, cfg)

\* a second passes and the owner rewrites the source file
Rewrite ==
    /\ ticks < MaxTicks
    /\ ticks' = ticks + 1
    /\ now' = now + 1
    /\ \E file_name \in RestoreSources \cap Names(work_dir) :
          work_dir' = Modify(work_dir, file_name, now')
    /\ UNCHANGED <<versions_path, last, before, streak, ops>>

Restore ==
    \E name \in Names(versions_path) \cup {NoSuchFile}, target \in RestoreTargets :
        restore_version(name, target)

RestoreNext == RestoreCreate \/ Rewrite \/ Restore

RestoreSpec == RestoreInit /\ [][RestoreNext]_vars

\* the bytes of a file
Content(file) == [data |-> file.data, enc |-> file.enc]

\* this step restores the version the create before it returned, to a target
\* that is no directory
RestoresCreated ==
    /\ last.op = "create" /\ last.status = "ok"
    /\ last'.op = "restore" /\ last'.path = last.path
    /\ last'.written # SubDir

\* C11: restore_version applied to the path create_version returned writes
\* to the target, overwriting what was there, the content the source had when
\* the version was created, for every source name and every compression
C11_ServiceRoundTrip ==
    [][RestoresCreated =>
          /\ last'.status = "ok"
          /\ last'.written \in Names(work_dir')
          /\ Content(work_dir'[last'.written]) = Content(before.work[last.file])]_vars

(***************************************************************************)
(* Two processes in create_version at once                                 *)
(*                                                                         *)
(* Each process calls create_version(a.txt) once.  The call is cut where   *)
(* it touches the file system: the sequence lookup, the write of the       *)
(* version, the directory listing of retention, the stat calls of the sort *)
(* key and of the tally loop, and each unlink.  last[p] is the call of     *)
(* process p and its status says how far it got; before[p] holds the       *)
(* versions directory its lookup saw and the working directory its write   *)
(* read.                                                                   *)
(***************************************************************************)
Procs == {1, 2}

RaceFiles == {LaterFile, FullSeqFile}

RaceConfigs == {c \in Configs : c.compression = "none" /\ c.timezone_format = "loc"}

\* the destination opened for exclusive creation
open_mode_exclusive == "xb"

\* the mode shutil.copy2 opens the destination with: an existing file is
\* truncated and written over
open_mode == "wb"

RaceInit ==
    /\ \E F \in SUBSET RaceFiles :
          /\ Cardinality(F) <= MaxForeign
          /\ versions_path = [n \in F |-> File(0, "none", StartTime - 60)]
    /\ work_dir = [n \in {ATxt} |-> File(1, "none", StartTime - 120)]
    /\ now = StartTime
    /\ last = [p \in Procs |-> NoCall]
    /\ before = [p \in Procs |-> [versions |-> versions_path, work |-> work_dir]]
    /\ streak = NoStreak
    /\ ops = 0
    /\ ticks = 0

\* lines 143-148: the existence check, get_timestamp and _get_version_path
Lookup(p, cfg) ==
    /\ last[p].op = "none"
    /\ ops < MaxOps
    /\ ops' = ops + 1
    /\ before' = [before EXCEPT ![p] = [versions |-> versions_path, work |-> work_dir]]
    /\ UNCHANGED <<versions_path, work_dir, now, streak, ticks>>
    /\ \E timestamp \in {get_timestamp(work_dir[ATxt], cfg.timestamp_format, cfg.timezone_format)} :
       \E version_path \in {_get_version_path(versions_path, ATxt, timestamp, cfg)} :
       \E call \in {[CallOf("create", ATxt, cfg) EXCEPT !.timestamp = timestamp,
                          !.written = version_path.name,
                          !.sequence = version_path.sequence]} :
          last' = [last EXCEPT ![p] =
                      IF version_path.err # ""
                      THEN [call EXCEPT !.status = "OSError", !.cause = version_path.err]
                      ELSE [call EXCEPT !.status = "lookup"]]

\* line 150: compress_file writes the version; without a limit
\* _cleanup_old_versions returns at once and the call returns
WriteVersion(p) ==
    /\ last[p].status = "lookup"
    /\ before' = [before EXCEPT ![p].work = work_dir]
    /\ UNCHANGED <<work_dir, now, streak, ops, ticks>>
    /\ \E call \in {last[p]} :
          IF open_mode = "xb" /\ call.written \in Names(versions_path)
          THEN /\ last' = [last EXCEPT ![p] = [call EXCEPT !.status = "OSError",
                                                          !.cause = "FileExistsError"]]
               /\ UNCHANGED versions_path
          ELSE /\ versions_path' = Write(versions_path, call.written,
                                         compress_file(work_dir[ATxt], call.compression))
               /\ last' = [last EXCEPT ![p] =
                              IF call.max_versions = NoLimit
                              THEN [call EXCEPT !.status = "ok", !.path = call.written,
                                                !.loc = "versions", !.removed = removed_count(-1)]
                              ELSE [call EXCEPT !.status = "written"]]

\* line 324: the glob of _get_versions; the list is kept in the order the
\* sort will give it, which depends on the names alone
ListVersions(p) ==
    /\ last[p].status = "written"
    /\ UNCHANGED <<versions_path, work_dir, now, before, streak, ops, ticks>>
    /\ \E versions \in SortedDesc({_VersionInfo(n) :
                                      n \in glob(versions_path, stem(ATxt) \o delimiter)}) :
          last' = [last EXCEPT ![p].status = "listed",
                               ![p].listing = [i \in 1..Len(versions) |-> versions[i].filename]]

\* lines 326 and 350-365: the sort key and the tally loop build _VersionInfo
\* of every listed path, which calls stat on it, then the consistency check
Examine(p) ==
    /\ last[p].status = "listed"
    /\ UNCHANGED <<versions_path, work_dir, now, before, streak, ops, ticks>>
    /\ \E call \in {last[p]} :
       \E versions \in {[i \in 1..Len(call.listing) |-> _VersionInfo(call.listing[i])]} :
       \E msg \in {consistency_msg(Keys([i \in 1..Len(versions) |-> versions[i].timezone_fmt], {}),
                                   Keys([i \in 1..Len(versions) |-> versions[i].timestamp_src], {}))} :
          last' = [last EXCEPT ![p] =
             IF \E i \in 1..Len(call.listing) : call.listing[i] \notin Names(versions_path)
             THEN [call EXCEPT !.status = "OSError", !.cause = "FileNotFoundError"]
             ELSE IF \E i \in 1..Len(versions) : versions[i].err # ""
             THEN [call EXCEPT !.status = "OSError",
                               !.cause = versions[CHOOSE i \in 1..Len(versions) :
                                                     versions[i].err # ""].err]
             ELSE IF msg # <<>>
             THEN [call EXCEPT !.status = "ok", !.path = call.written, !.loc = "versions",
                               !.msg = msg]
             ELSE IF pop_count(Len(call.listing), call.max_versions) = 0
             THEN [call EXCEPT !.status = "ok", !.path = call.written, !.loc = "versions"]
             ELSE [call EXCEPT !.status = "examined"]]

\* lines 368-373: one turn of the loop; versions.pop().unlink(), counted
\* unless it raised FileNotFoundError
UnlinkOldest(p) ==
    /\ last[p].status = "examined"
    /\ UNCHANGED <<work_dir, now, before, streak, ops, ticks>>
    /\ \E call \in {last[p]} :
       \E oldest \in {call.listing[Len(call.listing)]} :
       \E rest \in {SubSeq(call.listing, 1, Len(call.listing) - 1)} :
       \E files_removed \in {IF oldest \in Names(versions_path) THEN call.removed + 1
                             ELSE call.removed} :
          /\ versions_path' = IF oldest \in Names(versions_path)
                              THEN Unlink(versions_path, {oldest}) ELSE versions_path
          /\ last' = [last EXCEPT ![p] =
                IF Len(rest) > call.max_versions
                THEN [call EXCEPT !.listing = rest, !.removed = files_removed]
                ELSE [call EXCEPT !.listing = rest, !.removed = files_removed,
                                  !.status = "ok", !.path = call.written, !.loc = "versions"]]

\* a second passes; the owner of a.txt may rewrite it in that second
RaceTick ==
    /\ ticks < MaxTicks
    /\ ticks' = ticks + 1
    /\ now' = now + 1
    /\ \/ UNCHANGED work_dir
       \/ work_dir' = Modify(work_dir, ATxt, now')
    /\ UNCHANGED <<versions_path, last, before, streak, ops>>

RaceNext ==
    \/ \E p \in Procs, cfg \in RaceConfigs : Lookup(p, cfg)
    \/ \E p \in Procs : WriteVersion(p)
    \/ \E p \in Procs : ListVersions(p)
    \/ \E p \in Procs : Examine(p)
    \/ \E p \in Procs : UnlinkOldest(p)
    \/ RaceTick

RaceSpec == RaceInit /\ [][RaceNext]_vars

\* the call of p got its sequence number (it may have gone further)
LookedUp(p) == last[p].op = "create" /\ last[p].written # <<>>

\* the calls of p and q, made under the same formats and compression, are
\* for the same timestamp and each made its lookup before the other wrote
\* its version
Interleaved(p, q) ==
    /\ p # q /\ LookedUp(p) /\ LookedUp(q)
    /\ last[p].timestamp = last[q].timestamp
    /\ last[p].timezone_format = last[q].timezone_format
    /\ last[p].timestamp_format = last[q].timestamp_format
    /\ last[p].compression = last[q].compression
    /\ last[p].written \notin Names(before[q].versions)
    /\ last[q].written \notin Names(before[p].versions)

\* C17: two create_version calls for the same (baseName, timestamp) whose
\* lookups both come before the writes pick the same sequence number; the
\* second write does not fail, both return the same path, and of the two
\* versions written one file is on disk, with the content of one of them
C17_LostVersion ==
    \A p, q \in Procs :
        Interleaved(p, q) =>
            /\ last[p].sequence = last[q].sequence
            /\ last[p].written = last[q].written
            /\ last[p].status # "OSError" \/ last[p].cause # "FileExistsError"
            /\ (last[p].status = "ok" /\ last[q].status = "ok"
                /\ last[p].max_versions = NoLimit /\ last[q].max_versions = NoLimit) =>
                  /\ last[p].path = last[q].path
                  /\ last[p].path \in Names(versions_path)
                  /\ versions_path[last[p].path].data \in
                        {before[p].work[ATxt].data, before[q].work[ATxt].data}

\* both calls returned the same path; they wrote different contents, and the
\* file holds the second one only
C17_Witness ==
    /\ Interleaved(1, 2)
    /\ last[1].status = "ok" /\ last[2].status = "ok"
    /\ last[1].path = last[2].path
    /\ last[1].path \in Names(versions_path)
    /\ before[1].work[ATxt].data # before[2].work[ATxt].data
    /\ versions_path[last[1].path].data = before[2].work[ATxt].data
    /\ \A n \in Names(versions_path) : versions_path[n].data # before[1].work[ATxt].data

\* process p takes a step of retention after its directory listing
RetentionStep(p) == last[p].status \in {"listed", "examined"} /\ last'[p] # last[p]

\* C18: a version deleted by another process between the directory listing
\* of retention and its unlink is skipped: no step the call takes after the
\* listing fails for a missing file, and the removed count grows by the
\* files the step itself deleted
C18_BestEffortRetention ==
    [][\A p \in Procs :
          RetentionStep(p) =>
              /\ ~(last'[p].status = "OSError" /\ last'[p].cause = "FileNotFoundError")
              /\ last'[p].removed - last[p].removed =
                     Cardinality(Names(versions_path) \ Names(versions_path'))]_vars

\* this step is a call of restore_version
RestoreStep == ops' = ops + 1 /\ last'.op = "restore"

\* C21: restore_version checks that the version exists, then that the target
\* is no directory, and raises before it creates a directory or writes a file
C21_RestorePreconditions ==
    [][RestoreStep =>
          /\ last'.path \notin Names(versions_path) =>
                /\ last'.status = "FileNotFoundError"
                /\ UNCHANGED <<work_dir, versions_path>>
          /\ (last'.path \in Names(versions_path) /\ is_dir(work_dir, last'.written)) =>
                /\ last'.status = "OSError"
                /\ UNCHANGED <<work_dir, versions_path>>]_vars

\* a restore of a missing version onto a directory
C21_Witness ==
    /\ last.op = "restore"
    /\ last.path \notin Names(before.versions)
    /\ is_dir(before.work, last.written)
    /\ last.status = "FileNotFoundError"

\* the last call was remove_version on a file of the versions directory
\* that decodes as a version with a sequence number above 0
RemovedValid ==
    /\ last.op = "remove"
    /\ resolve(last.loc) = "versions"
    /\ last.path \in Names(before.versions)
    /\ Decodes(last.path)
    /\ _VersionInfo(last.path).sequence > 0

\* C22: remove_version on a valid version inside the versions directory
\* deletes that file and nothing else: the path is gone, every other file
\* is as it was, and no file appeared
C22_RemoveExactlyOne ==
    RemovedValid =>
        /\ last.status = "ok"
        /\ Names(versions_path) = Names(before.versions) \ {last.path}
        /\ \A n \in Names(versions_path) : versions_path[n] = before.versions[n]
        /\ work_dir = before.work

\* a valid version was removed from a directory that held another file
C22_Witness ==
    /\ RemovedValid
    /\ last.status = "ok"
    /\ Names(before.versions) \ {last.path} # {}

\* the suffixes compress_file's output carries
CompressionSuffixes == {<<".", "g", "z">>, <<".", "b", "z", "2">>, <<".", "x", "z">>}

\* the name {stem}{delim}{timestamp}_{seq:03d}{delim}{tz3}_{src3}{ext} for
\* the last call
PlainName ==
    stem(last.file) \o delimiter \o last.timestamp \o <<"_">> \o Fmt03d(last.sequence)
        \o delimiter \o SpecChars(last.timezone_format, last.timestamp_format)
        \o suffix(last.file)

\* .{compressionTag}, nothing for NONE
SuffixOf(compression) ==
    CASE compression = "gz" -> <<".", "g", "z">>
      [] compression = "bz2" -> <<".", "b", "z", "2">>
      [] compression = "xz" -> <<".", "x", "z">>
      [] OTHER -> <<>>

\* C23: the file create_version writes is named after the pattern, with the
\* tags of the configuration in use, and its name ends in .gz, .bz2 or .xz
\* exactly when the configured compression is not NONE
C23_VersionNameFormat ==
    (last.op = "create" /\ last.status = "ok") =>
        /\ last.path = PlainName \o SuffixOf(last.compression)
        /\ (suffix(last.path) \in CompressionSuffixes) <=> (last.compression # "none")

(***************************************************************************)
(* _FileOperations.compress_file and decompress_file on their own          *)
(*                                                                         *)
(* A file X lies in the working directory; compress_file writes it to      *)
(* Packed under some algorithm and decompress_file writes Packed to        *)
(* Unpacked under some algorithm.                                          *)
(***************************************************************************)
Packed == <<"p">>
Unpacked == <<"u">>

\* what X may hold and carry: text, a gzip stream or nothing; read long
\* after or at its last write; permission bits rw-r--r-- or rw-------
CompressInputs ==
    {[File(data, "none", StartTime - 120) EXCEPT !.atime = atime, !.mode = mode] :
        data \in {PlainData, PackedData, EmptyData},
        atime \in {StartTime - 120, StartTime - 60},
        mode \in {"644", "600"}}

CompressInit ==
    /\ versions_path = <<>>
    /\ \E X \in CompressInputs : work_dir = [n \in {ATxt} |-> X]
    /\ now = StartTime
    /\ last = NoCall
    /\ before = [versions |-> versions_path, work |-> work_dir]
    /\ streak = NoStreak
    /\ ops = 0
    /\ ticks = 0

Compress(compression) ==
    /\ last.op = "none"
    /\ work_dir' = Write(work_dir, Packed, compress_file(work_dir[ATxt], compression))
    /\ last' = [NoCall EXCEPT !.op = "compress", !.status = "ok", !.file = ATxt,
                              !.written = Packed, !.compression = compression]
    /\ UNCHANGED <<versions_path, now, before, streak, ops, ticks>>

Decompress(compression) ==
    /\ last.op = "compress"
    /\ \E restored \in {decompress_file(work_dir[Packed], compression)} :
          /\ work_dir' = Write(work_dir, Unpacked, restored.file)
          /\ last' = [NoCall EXCEPT !.op = "decompress", !.file = Packed, !.written = Unpacked,
                                    !.compression = compression,
                                    !.status = IF restored.err = "" THEN "ok" ELSE "OSError",
                                    !.cause = restored.err]
    /\ UNCHANGED <<versions_path, now, before, streak, ops, ticks>>

\* a second passes
CompressTick ==
    /\ ticks < MaxTicks
    /\ ticks' = ticks + 1
    /\ now' = now + 1
    /\ UNCHANGED <<versions_path, work_dir, last, before, streak, ops>>

CompressNext ==
    \/ \E compression \in CompressionType : Compress(compression)
    \/ \E compression \in CompressionType : Decompress(compression)
    \/ CompressTick

CompressSpec == CompressInit /\ [][CompressNext]_vars

\* modification time, access time and permission bits
Metadata(file) == [mtime |-> file.mtime, atime |-> file.atime, mode |-> file.mode]

BracketTxt == <<"a", "[", "1", "]", ".", "t", "x", "t">>
ServiceSources == SourceNames \cup {BracketTxt}

ServiceInit ==
    /\ \E F \in SUBSET ForeignFiles :
          /\ Cardinality(F) <= MaxForeign
          /\ versions_path = [n \in F |-> File(0, "none", StartTime - 60)]
    /\ work_dir = [n \in {ATxt, BracketTxt, StrayVersion} |->
                      IF n = StrayVersion THEN File(0, "none", StartTime - 60)
                      ELSE File(1, "none", StartTime - 120)]
    /\ now = StartTime
    /\ last = NoCall
    /\ before = [versions |-> versions_path, work |-> work_dir]
    /\ streak = NoStreak
    /\ ops = 0
    /\ ticks = 0

ServiceCreate == \E file_name \in ServiceSources, cfg \in Configs : create_version(file_name, cfg)

ServiceList == \E file_name \in ServiceSources \cap Names(work_dir) : list_versions(file_name)

\* a version is put back over the source it was taken from, or at a new path
ServiceRestore ==
    \E name \in Names(versions_path) \cup {NoSuchFile}, target \in {ATxt, RTxt} :
        restore_version(name, target)

ServiceNext == ServiceCreate \/ ServiceList \/ Remove \/ ServiceRestore \/ Tick

ServiceSpec == ServiceInit /\ [][ServiceNext]_vars

\* C25: a failure of create_version, restore_version or remove_version is a
\* FileNotFoundError, raised for a missing source or version, or an OSError;
\* _VersionError, ValueError and RuntimeError do not get out
C25_ErrorSurface ==
    last.op \in {"create", "restore", "remove"} =>
        /\ last.status \in {"ok", "FileNotFoundError", "OSError"}
        /\ last.status = "FileNotFoundError" <=>
              \/ last.op = "create" /\ last.file \notin Names(before.work)
              \/ last.op = "restore" /\ last.path \notin Names(before.versions)
              \/ last.op = "remove" /\ last.path \notin
                    Names(IF resolve(last.loc) = "versions" THEN before.versions ELSE before.work)

\* a ValueError raised by strptime inside create_version came out as OSError
C25_Witness ==
    /\ last.op = "create"
    /\ last.cause = "ValueError"
    /\ last.status = "OSError"

(***************************************************************************)
(* The service on a directory whose versions of a.txt are already mixed    *)
(***************************************************************************)
\* a version of a.txt taken three minutes before StartTime under UTC
UtcFile ==
    VersionName(<<"a">>, strftime(StartTime - 180 - UtcOffset), 1, "utc", "mod",
                <<".", "t", "x", "t">>, "none")

\* the versions directory holds one UTC and one LOCAL version of a.txt, and
\* what else other programs or earlier runs left there
MixedInit ==
    /\ \E F \in SUBSET (ForeignFiles \ {LaterFile}) :
          /\ Cardinality(F) <= MaxForeign
          /\ versions_path = [n \in F \cup {UtcFile, LaterFile} |-> File(0, "none", StartTime - 60)]
    /\ work_dir = [n \in {ATxt, StrayVersion} |->
                      IF n = ATxt THEN File(1, "none", StartTime - 120)
                      ELSE File(0, "none", StartTime - 60)]
    /\ now = StartTime
    /\ last = NoCall
    /\ before = [versions |-> versions_path, work |-> work_dir]
    /\ streak = NoStreak
    /\ ops = 0
    /\ ticks = 0

MixedSpec == MixedInit /\ [][Next]_vars

\* the versions of the file that were on disk when the last call started
\* held more than one timezone format or more than one timestamp source
MixedBefore ==
    LET decoded == {x \in Infos(Matches(before.versions, last.file)) : x.err = ""}
    IN  \/ Cardinality({x.timezone_fmt : x \in decoded}) > 1
        \/ Cardinality({x.timestamp_src : x \in decoded}) > 1

\* C26: once the versions of a file are mixed, every create_version with
\* max_versions set returns a warning and removes nothing: the directory
\* gains the new version, loses none, and holds more than max_versions
C26_MixedBlocksPruning ==
    (last.op = "create" /\ last.file \in Names(before.work)
     /\ last.max_versions # NoLimit /\ MixedBefore) =>
        /\ last.status = "ok"
        /\ last.msg # <<>>
        /\ last.removed = 0
        /\ last.path \notin Names(before.versions)
        /\ Names(versions_path) = Names(before.versions) \cup {last.path}
        /\ Cardinality(Matches(versions_path, last.file)) > last.max_versions

(***************************************************************************)
(* FileVersioningConfig: construction and validation                       *)
(*                                                                         *)
(* max_versions is <<>> for None and <<n>> for the integer n.              *)
(***************************************************************************)
DelimiterInputs == {<<>>, delimiter, <<"_">>, <<"-", "-", "-">>}
MaxVersionsInputs == {<<>>} \cup {<<n>> : n \in -2..3}
CompressionInputs == CompressionType \cup {"", "GZ", "gzip", "zip", "invalid"}

NoConfig ==
    [op |-> "none", status |-> "", delimiter |-> <<>>, use_utc |-> FALSE, compression |-> "",
     max_versions |-> <<>>, use_modified_time |-> FALSE]

ConfigInit ==
    /\ \E d \in DelimiterInputs, u \in BOOLEAN, c \in CompressionInputs,
          m \in MaxVersionsInputs, t \in BOOLEAN :
          last = [NoConfig EXCEPT !.op = "args", !.delimiter = d, !.use_utc = u,
                                  !.compression = c, !.max_versions = m,
                                  !.use_modified_time = t]
    /\ versions_path = <<>>
    /\ work_dir = <<>>
    /\ now = StartTime
    /\ before = [versions |-> versions_path, work |-> work_dir]
    /\ streak = NoStreak
    /\ ops = 0
    /\ ticks = 0

\* _CompressionType(compression): the enum lookup by value fails
unknown_compression(compression) == compression \notin CompressionType

\* the test on max_versions with 0 let through
max_versions_invalid_negative(max_versions) == max_versions # <<>> /\ max_versions[1] < 0

\* _FileVersioningConfig.__post_init__: max_versions is not None and <= 0
max_versions_invalid(max_versions) == max_versions # <<>> /\ max_versions[1] <= 0

\* _FileVersioningConfig.__post_init__: not delimiter
delimiter_invalid(d) == Len(d) = 0

\* FileVersioningConfig.__init__: every ValueError raised while the internal
\* configuration is built is raised again as ValueError
Construct ==
    /\ last.op = "args"
    /\ last' = [last EXCEPT
                   !.op = "config",
                   !.status = IF \/ unknown_compression(last.compression)
                                 \/ max_versions_invalid(last.max_versions)
                                 \/ delimiter_invalid(last.delimiter)
                              THEN "ValueError" ELSE "ok"]
    /\ UNCHANGED <<versions_path, work_dir, now, before, streak, ops, ticks>>

ConfigNext == Construct

ConfigSpec == ConfigInit /\ [][ConfigNext]_vars

\* C27: the construction raises ValueError exactly when the delimiter is
\* empty, max_versions is present and not above 0, or the compression name
\* is none of none, gz, bz2, xz; every other configuration is accepted
C27_ConfigValidation ==
    last.op = "config" =>
        /\ last.status \in {"ok", "ValueError"}
        /\ last.status = "ValueError" <=>
              \/ last.delimiter = <<>>
              \/ \E n \in -2..0 : last.max_versions = <<n>>
              \/ last.compression \notin {"none", "gz", "bz2", "xz"}

\* max_versions=0 with a valid delimiter and compression is rejected
C27_Witness ==
    /\ last.op = "config" /\ last.status = "ValueError"
    /\ last.max_versions = <<0>> /\ last.delimiter # <<>> /\ last.compression = "xz"

(***************************************************************************)
(* _VersionSpec.from_string and str(_VersionSpec) on their own             *)
(***************************************************************************)
\* the string s and every string one edit away from it: one character
\* replaced by, or inserted from, chars, or one character deleted
Edits(s, chars) ==
    {s}
    \cup {[s EXCEPT ![i] = c] : i \in 1..Len(s), c \in chars}
    \cup {SubSeq(s, 1, i - 1) \o <<c>> \o SubSeq(s, i, Len(s)) : i \in 1..(Len(s) + 1), c \in chars}
    \cup {SubSeq(s, 1, i - 1) \o SubSeq(s, i + 1, Len(s)) : i \in 1..Len(s)}

\* the strings from_string is given: the four it is written for, what lies
\* one edit away from them, the strings of the tests, and short ones
SpecStrings ==
    UNION {Edits(SpecChars(tz, src), {"_", "u", "c", "d", "x", "M"}) :
              tz \in TimezoneFormat, src \in TimestampSource}
    \cup {<<>>, <<"_">>, <<"_", "_">>,
          <<"i", "n", "v", "a", "l", "i", "d">>,
          <<"a", "b", "c", "_", "d", "e", "f">>,
          <<"u", "t", "c", "_", "i", "n", "v", "a", "l", "i", "d">>,
          <<"i", "n", "v", "a", "l", "i", "d", "_", "m", "o", "d">>,
          <<"u", "t", "c", "c", "_", "m", "o", "d", "d">>,
          <<"u", "t", "c", "_", "m", "o", "d", "_", "x">>,
          <<"U", "T", "C", "_", "M", "O", "D">>}

NoParsed == [op |-> "str", str |-> <<>>, spec |-> NoSpec, printed |-> <<>>]

VersionSpecInit ==
    /\ \E spec_str \in SpecStrings : last = [NoParsed EXCEPT !.str = spec_str]
    /\ versions_path = <<>>
    /\ work_dir = <<>>
    /\ now = StartTime
    /\ before = [versions |-> versions_path, work |-> work_dir]
    /\ streak = NoStreak
    /\ ops = 0
    /\ ticks = 0

\* _VersionSpec.from_string(spec_str)
FromString ==
    /\ last.op = "str"
    /\ last' = [last EXCEPT !.op = "parsed", !.spec = from_string(last.str)]
    /\ UNCHANGED <<versions_path, work_dir, now, before, streak, ops, ticks>>

\* str() of the spec returned
Str ==
    /\ last.op = "parsed" /\ last.spec.err = ""
    /\ last' = [last EXCEPT !.op = "printed", !.printed = SpecChars(last.spec.tz, last.spec.src)]
    /\ UNCHANGED <<versions_path, work_dir, now, before, streak, ops, ticks>>

VersionSpecNext == FromString \/ Str

VersionSpecSpec == VersionSpecInit /\ [][VersionSpecNext]_vars

\* C28: from_string returns a spec for utc_mod, utc_sto, loc_mod and loc_sto,
\* the spec whose string form is the input, and raises _VersionError for
\* every other string
C28_FromStringExact ==
    /\ last.op \in {"parsed", "printed"} =>
          /\ last.spec.err \in {"", "_VersionError"}
          /\ last.spec.err = "" <=>
                last.str \in {<<"u", "t", "c", "_", "m", "o", "d">>,
                              <<"u", "t", "c", "_", "s", "t", "o">>,
                              <<"l", "o", "c", "_", "m", "o", "d">>,
                              <<"l", "o", "c", "_", "s", "t", "o">>}
    /\ last.op = "printed" => last.printed = last.str

\* loc_sto was parsed and printed back
C28_Witness ==
    /\ last.op = "printed"
    /\ last.str = <<"l", "o", "c", "_", "s", "t", "o">>
    /\ last.spec.tz = "loc" /\ last.spec.src = "sto"
    /\ last.printed = last.str

(***************************************************************************)
(* The compression of a version record: _VersionInfo.__post_init__ sets it *)
(* with _CompressionType.from_extension(path)                              *)
(***************************************************************************)
\* what stands before the final suffix: a bare stem, stems that hold a
\* compression suffix or another suffix, and the stem of a version name
\* with and without a compression suffix inside
VersionStem == VersionName(<<"a">>, strftime(StartTime), 1, "loc", "mod", <<>>, "none")
ExtensionStems ==
    {<<"a">>, <<"a", ".", "g", "z">>, <<"a", ".", "t", "a", "r">>, <<"a", ".", "X", "Z">>,
     VersionStem, VersionStem \o <<".", "t", "x", "t">>, VersionStem \o <<".", "b", "z", "2">>}

\* final suffixes: the three compression suffixes in several spellings,
\* and suffixes that are not compression suffixes
FinalSuffixes ==
    {<<".", "g", "z">>, <<".", "G", "Z">>, <<".", "G", "z">>,
     <<".", "b", "z", "2">>, <<".", "B", "Z", "2">>, <<".", "b", "Z", "2">>,
     <<".", "x", "z">>, <<".", "X", "Z">>, <<".", "x", "Z">>,
     <<".", "t", "x", "t">>, <<".", "g", "z", "i", "p">>, <<".", "z">>, <<".", "g">>,
     <<".", "b", "z">>, <<".", "g", "z", "2">>, <<".", "g", "z", "_">>}

NoRecord == [op |-> "path", stem |-> <<>>, ext |-> <<>>, configured |-> "none",
             compression |-> "", info |-> _VersionInfo(<<>>)]

\* a path stem + ext, or a stem that has no suffix at all, and the
\* compression of the configuration under which the record is read
ExtensionInit ==
    /\ \E st \in ExtensionStems, ext \in FinalSuffixes \cup {<<>>}, c \in CompressionType :
          /\ ext = <<>> => st \in {<<"a">>, VersionStem}
          /\ last = [NoRecord EXCEPT !.stem = st, !.ext = ext, !.configured = c]
    /\ versions_path = <<>>
    /\ work_dir = <<>>
    /\ now = StartTime
    /\ before = [versions |-> versions_path, work |-> work_dir]
    /\ streak = NoStreak
    /\ ops = 0
    /\ ticks = 0

\* _CompressionType.from_extension(path)
FromExtension ==
    /\ last.op = "path"
    /\ last' = [last EXCEPT !.op = "extension",
                            !.compression = from_extension(last.stem \o last.ext)]
    /\ UNCHANGED <<versions_path, work_dir, now, before, streak, ops, ticks>>

\* _VersionInfo(path, config) with config.compression = last.configured
ReadRecord ==
    /\ last.op = "extension"
    /\ last' = [last EXCEPT !.op = "record", !.info = _VersionInfo(last.stem \o last.ext)]
    /\ UNCHANGED <<versions_path, work_dir, now, before, streak, ops, ticks>>

ExtensionNext == FromExtension \/ ReadRecord

ExtensionSpec == ExtensionInit /\ [][ExtensionNext]_vars

\* the compression a final suffix stands for
SuffixCompression(ext) ==
    CASE ext \in {<<".", "g", "z">>, <<".", "G", "Z">>, <<".", "G", "z">>} -> "gz"
      [] ext \in {<<".", "b", "z", "2">>, <<".", "B", "Z", "2">>, <<".", "b", "Z", "2">>} -> "bz2"
      [] ext \in {<<".", "x", "z">>, <<".", "X", "Z">>, <<".", "x", "Z">>} -> "xz"
      [] OTHER -> "none"

\* C29: the compression of a version record is the one its final suffix
\* stands for (.gz, .bz2, .xz in any case; none for any other suffix or no
\* suffix), whatever stands before that suffix and whatever compression is
\* configured when the record is read
C29_CompressionFromFinalSuffix ==
    /\ last.op \in {"extension", "record"} => last.compression = SuffixCompression(last.ext)
    /\ (last.op = "record" /\ last.info.err = "") =>
          last.info.compression = SuffixCompression(last.ext)

\* a record read under compression none from a version name that ends in
\* .bz2.GZ has compression gz
C29_Witness ==
    /\ last.op = "record" /\ last.info.err = ""
    /\ last.stem = VersionStem \o <<".", "b", "z", "2">>
    /\ last.ext = <<".", "G", "Z">>
    /\ last.configured = "none"
    /\ last.info.compression = "gz"

(***************************************************************************)
(* One writer: no create_version writes where a file already is            *)
(***************************************************************************)
\* what a version name decodes to
Triple(n) == <<_VersionInfo(n).original_name, _VersionInfo(n).ts, _VersionInfo(n).sequence>>

\* C30: with calls made one after another, create_version never writes to
\* a path that already exists, so no version is replaced by a create, and
\* no two files of the versions directory decode to the same base name,
\* timestamp and sequence
C30_NoOverwrite ==
    /\ (last.op = "create" /\ last.written # <<>>) =>
          last.written \notin Names(before.versions)
    /\ \A m, n \in Names(versions_path) :
          (m # n /\ Decodes(m) /\ Decodes(n)) => Triple(m) # Triple(n)

\* the second create_version of a[1].txt within one second wrote to the
\* path the first one had written
C30_Overwritten ==
    /\ last.op = "create" /\ last.status = "ok"
    /\ last.file = BracketTxt
    /\ last.sequence = 1
    /\ last.written \in Names(before.versions)

(***************************************************************************)
(* A create_version that raises                                            *)
(***************************************************************************)
\* C31: when create_version raises, the versions directory holds the files
\* it held before the call, with the same contents: nothing new or partial
\* is left behind and nothing is deleted
C31_FailedCreateLeavesNothing ==
    (last.op = "create" /\ last.status # "ok") => versions_path = before.versions

\* a create_version that raised after it had written its version
C31_LeftBehind ==
    /\ last.op = "create" /\ last.status = "OSError"
    /\ last.written \in Names(versions_path) \ Names(before.versions)

(***************************************************************************)
(* Two sources with one stem that share the versions directory             *)
(***************************************************************************)
AMd == <<"a", ".", "m", "d">>
\* a source whose stem holds the delimiter
DelimTxt == <<"c", "-", "-", "d", ".", "t", "x", "t">>
SharedSources == {ATxt, AMd, DelimTxt}

\* a.txt and a.md lie side by side; the versions directory is empty or
\* holds a version of b.txt
SharedInit ==
    /\ \E F \in SUBSET {OtherFile} :
          versions_path = [n \in F |-> File(0, "none", StartTime - 60)]
    /\ work_dir = [n \in SharedSources |-> File(IF n = AMd THEN 2 ELSE 1, "none", StartTime - 120)]
    /\ now = StartTime
    /\ last = NoCall
    /\ before = [versions |-> versions_path, work |-> work_dir]
    /\ streak = NoStreak
    /\ ops = 0
    /\ ticks = 0

SharedCreate == \E file_name \in SharedSources, cfg \in Configs : create_version(file_name, cfg)

SharedList == \E file_name \in SharedSources : list_versions(file_name)

SharedNext == SharedCreate \/ SharedList \/ Remove \/ Tick

SharedSpec == SharedInit /\ [][SharedNext]_vars

EndsWith(s, e) == Len(s) >= Len(e) /\ SubSeq(s, Len(s) - Len(e) + 1, Len(s)) = e

\* n is named as a version made from the source file_name: the stem of the
\* source in front, its extension (and a compression suffix, if any) behind
CreatedFrom(n, file_name) ==
    /\ StartsWith(n, stem(file_name) \o delimiter)
    /\ \E c \in CompressionType : EndsWith(n, suffix(file_name) \o SuffixOf(c))

\* C32: the retention of a create_version of file A deletes only versions
\* made from A; versions of another source in the same versions directory,
\* also of one with the stem of A and another extension, are not deleted
C32_RetentionOnlyOwn ==
    (last.op = "create" /\ last.written # <<>>) => \A n \in Gone : CreatedFrom(n, last.file)

\* a create_version of one of a.txt and a.md deleted a version of the other
C32_ForeignDeleted ==
    /\ last.op = "create" /\ last.status = "ok" /\ last.removed >= 1
    /\ \E n \in Gone : \E other \in SharedSources \ {last.file} : CreatedFrom(n, other)

\* C33: the file a create_version writes is a valid version under the
\* configuration in use, whatever the name of the source: it decodes
\* without error
C33_CreatedDecodes ==
    (last.op = "create" /\ last.written # <<>>) => Decodes(last.written)

\* list_versions of c--d.txt raised on the version a create_version of
\* c--d.txt had written
C33_ListFailsOnCreated ==
    /\ last.op = "list" /\ last.file = DelimTxt
    /\ last.status = "_VersionError"
    /\ \E n \in Matches(versions_path, DelimTxt) : ~Decodes(n)

(***************************************************************************)
(* restore_version with a target that resolves to the version itself       *)
(***************************************************************************)
\* dest_path.open("wb") on a file that exists: its bytes are gone
truncate(file) == [file EXCEPT !.data = EmptyData, !.enc = "none", !.mtime = now]

\* decompress_file(path, path, compression): copy2 refuses to copy a file
\* onto itself; the decoders open the path for reading, then for writing,
\* which empties it, and read the empty file: gzip reads nothing, bz2 and
\* lzma raise; preserve_metadata then copies the file's metadata onto itself
decompress_onto_itself(file, compression) ==
    CASE compression = "none" -> [err |-> "SameFileError", file |-> file]
      [] compression = "gz" -> [err |-> "", file |-> preserve_metadata(truncate(file), truncate(file))]
      [] OTHER -> [err |-> "EOFError", file |-> truncate(file)]

\* restore_version(version_path, target_path), both the path of name
restore_onto_itself(name) ==
    /\ ops < MaxOps
    /\ ops' = ops + 1
    /\ before' = [versions |-> versions_path, work |-> work_dir]
    /\ streak' = NoStreak
    /\ UNCHANGED <<work_dir, now, ticks>>
    /\ \E call \in {[NoCall EXCEPT !.op = "restore", !.path = name, !.loc = "versions",
                                   !.written = name]} :
          IF name \notin Names(versions_path)
          THEN /\ last' = [call EXCEPT !.status = "FileNotFoundError"]
               /\ UNCHANGED versions_path
          ELSE \E restored \in {decompress_onto_itself(versions_path[name], from_extension(name))} :
                  /\ versions_path' = Write(versions_path, name, restored.file)
                  /\ last' = IF restored.err # ""
                             THEN [call EXCEPT !.status = surfaces(restored.err), !.cause = restored.err]
                             ELSE [call EXCEPT !.status = "ok",
                                               !.compression = from_extension(name)]

RestoreOntoItself == \E name \in Names(versions_path) \cup {NoSuchFile} : restore_onto_itself(name)

OntoItselfNext == RestoreNext \/ RestoreOntoItself

OntoItselfSpec == RestoreInit /\ [][OntoItselfNext]_vars

\* C34: restore_version changes and deletes no file of the versions
\* directory, whatever the target, also when the target is the path of the
\* version itself; only the target is written
C34_RestoreLeavesVersions ==
    last.op = "restore" => versions_path = before.versions

\* a restore_version of a compressed version onto its own path returned and
\* left the version empty
C34_VersionEmptied ==
    /\ last.op = "restore" /\ last.status = "ok"
    /\ last.written = last.path
    /\ before.versions[last.path].data # EmptyData
    /\ versions_path[last.path].data = EmptyData

(***************************************************************************)
(* The sequence numbers create_version hands out                           *)
(***************************************************************************)
\* the non-zero sequences of the files in d named after the file and the
\* timestamp of the last create
SequencesAt(d) == {x.sequence : x \in Infos(AtTimestamp(d))} \ {0}

\* C35: the sequence of a create_version is the highest non-zero sequence
\* decoded from the existing files of its base name and timestamp plus 1,
\* or 1 if there is none, so a number is handed out again only after the
\* version that held the highest sequence is gone (past 999 the call fails
\* and writes nothing)
C35_NextSequence ==
    (/\ last.op = "create" /\ last.timestamp # <<>>
     /\ \A x \in Infos(AtTimestamp(before.versions)) : x.err = "") =>
        LET top == Max(SequencesAt(before.versions) \cup {0})
        IN  IF top + 1 > MAX_SEQUENCE THEN last.written = <<>>
            ELSE /\ last.written # <<>>
                 /\ last.sequence = top + 1
                 /\ last.sequence \notin SequencesAt(before.versions)

\* a create_version was given sequence 1 while the version numbered 001 of
\* its base name and timestamp was on disk
C35_HandedOutTwice ==
    /\ last.op = "create" /\ last.status = "ok"
    /\ last.sequence = 1
    /\ 1 \in SequencesAt(before.versions)

\* the last call is a create_version under a limit and modified-time stamps
\* whose file has versions on disk, all of them decodable, stamped with the
\* timestamp the call computed and made under its formats
SameTimestampCreate ==
    /\ last.op = "create" /\ last.timestamp # <<>>
    /\ last.max_versions # NoLimit /\ last.timestamp_format = "mod"
    /\ Matches(before.versions, last.file) # {}
    /\ Matches(before.versions, last.file) = AtTimestamp(before.versions)
    /\ \A x \in Infos(Matches(before.versions, last.file)) :
          /\ x.err = "" /\ x.sequence > 0
          /\ x.timezone_fmt = last.timezone_format /\ x.timestamp_src = "mod"

\* C36: under max_versions = K, with every create_version of a file
\* computing the same timestamp, retention removes the lowest sequences and
\* the highest sequence of the pair grows by one with every create; once it
\* is 999 the create fails with the sequence exhausted and changes nothing,
\* though no more than K versions are on disk
C36_SequenceGrowsUntilExhausted ==
    SameTimestampCreate =>
        LET top == Max(SequencesAt(before.versions))
        IN  IF top = MAX_SEQUENCE
            THEN /\ last.status = "OSError" /\ last.cause = "RuntimeError"
                 /\ versions_path = before.versions
            ELSE /\ last.status = "ok"
                 /\ last.sequence = top + 1
                 /\ Max(SequencesAt(versions_path)) = top + 1
                 /\ Cardinality(Matches(versions_path, last.file)) <= last.max_versions
                 /\ \A n \in SequencesAt(before.versions) \ SequencesAt(versions_path) :
                       \A k \in SequencesAt(versions_path) : n < k

\* a create_version under a limit left the highest sequence of its file and
\* timestamp at 1, where it was before the call
C36_NoGrowth ==
    /\ SameTimestampCreate /\ last.status = "ok"
    /\ Max(SequencesAt(before.versions)) = 1
    /\ Max(SequencesAt(versions_path)) = 1

(***************************************************************************)
(* The command-line driver: pyfileversioning.main                          *)
(***************************************************************************)
\* every order in which a directory listing can give the names S
RECURSIVE Orderings(_)
Orderings(S) ==
    IF S = {} THEN {<<>>}
    ELSE UNION {{<<n>> \o t : t \in Orderings(S \ {n})} : n \in S}

\* expand_file_patterns(patterns) against directory d: the matches of each
\* pattern in the order glob gives them, the pattern itself if it has none
RECURSIVE expand_file_patterns(_, _)
expand_file_patterns(d, patterns) ==
    IF patterns = <<>> THEN {<<>>}
    ELSE LET matches == {n \in Names(d) : fnmatch(n, patterns[1])}
             first == IF matches = {} THEN {<<patterns[1]>>} ELSE Orderings(matches)
         IN  {f \o t : f \in first, t \in expand_file_patterns(d, Tail(patterns))}

\* the state of the two directories, and the outcome of one call on it
Dirs(versions, work) == [versions |-> versions, work |-> work]
Outcome(versions, work, status) == [versions |-> versions, work |-> work, status |-> status]

\* versioning.create_version(file_path) on the directories st
cli_create(st, file_name, cfg) ==
    IF file_name \notin Names(st.work)
    THEN {Outcome(st.versions, st.work, source_missing)}
    ELSE LET written(version_path) ==
                 IF version_path.err # ""
                 THEN {Outcome(st.versions, st.work, surfaces(version_path.err))}
                 ELSE {Outcome(cleanup.dir, st.work,
                               IF cleanup.err # "" THEN surfaces(cleanup.err) ELSE "ok") :
                       cleanup \in _cleanup_old_versions(
                                      Write(st.versions, version_path.name,
                                            compress_file(st.work[file_name], cfg.compression)),
                                      file_name, cfg.max_versions)}
         IN  written(_get_version_path(st.versions, file_name,
                                       get_timestamp(st.work[file_name], cfg.timestamp_format,
                                                     cfg.timezone_format), cfg))

\* versioning.restore_version(file_path, args.target) on the directories st
cli_restore(st, name, target) ==
    IF name \notin Names(st.versions) THEN {Outcome(st.versions, st.work, "FileNotFoundError")}
    ELSE IF is_dir(st.work, target) THEN {Outcome(st.versions, st.work, "OSError")}
    ELSE LET restored(r) ==
                 {Outcome(st.versions, Write(mkdir(st.work, parent(target)), target, r.file),
                          IF r.err # "" THEN surfaces(r.err) ELSE "ok")}
         IN  restored(decompress_file(st.versions[name], from_extension(name)))

\* versioning.remove_version(file_path), file_path a path in the versions
\* directory
cli_remove(st, name) ==
    IF name \notin Names(st.versions) THEN {Outcome(st.versions, st.work, "FileNotFoundError")}
    ELSE IF invalid_version(_VersionInfo(name)) THEN {Outcome(st.versions, st.work, "OSError")}
    ELSE {Outcome(Unlink(st.versions, {name}), st.work, "ok")}

\* list_versions(file_path, config) of the driver: a missing file is
\* reported and the function returns; what versioning.list_versions raises
\* gets out
cli_list(st, file_name) ==
    IF file_name \notin Names(st.work) THEN {Outcome(st.versions, st.work, "ok")}
    ELSE LET listed(got) ==
                 IF got.errs # {} THEN {Outcome(st.versions, st.work, e) : e \in got.errs}
                 ELSE {Outcome(st.versions, st.work, "ok")}
         IN  listed(_get_versions(st.versions, file_name))

\* the body of the loop for one file
process_file(st, command, file_path, target, cfg) ==
    CASE command = "create" -> cli_create(st, file_path, cfg)
      [] command = "restore" -> cli_restore(st, file_path, target)
      [] command = "remove" -> cli_remove(st, file_path)
      [] OTHER -> cli_list(st, file_path)

\* the loop over expanded_files: every outcome it can have, with the status
\* of each file in turn ("ok", or the exception counted in error_count)
RECURSIVE process_files(_, _, _, _, _)
process_files(st, command, files, target, cfg) ==
    IF files = <<>> THEN {[versions |-> st.versions, work |-> st.work, statuses |-> <<>>]}
    ELSE UNION {{[rest EXCEPT !.statuses = <<o.status>> \o @] :
                    rest \in process_files(Dirs(o.versions, o.work), command, Tail(files),
                                           target, cfg)} :
                o \in process_file(st, command, files[1], target, cfg)}

\* the exit always 0
exit_status_zero(error_count) == 0

\* lines 215-216: sys.exit(1) if error_count > 0, else main returns
exit_status(error_count) == IF error_count > 0 THEN 1 ELSE 0

\* the command lines of the model: files and patterns for create and list
\* name the working directory, those for restore and remove the versions
\* directory
Commands == {"create", "restore", "list", "remove"}
AStar == <<"a", "*">>
MaxFiles == 2
MaxRuns == 1
SeqsUpTo(S, n) == UNION {[1..k -> S] : k \in 0..n}
FileArgs(command) ==
    SeqsUpTo(IF command \in {"create", "list"} THEN {ATxt, GoneTxt, AStar}
             ELSE {LaterFile, NoteFile, NoSuchFile, AStar}, MaxFiles)
TargetArgs == {<<>>, RTxt}
MaxVersionsArgs == {<<>>, <<0>>, <<1>>}

NoRun ==
    [op |-> "none", command |-> "", files |-> <<>>, target |-> <<>>, max_versions |-> <<>>,
     expanded |-> <<>>, statuses |-> <<>>, raised |-> "", exit |-> 0]

\* main(args): the configuration is built first (a ValueError gets out of
\* main, the interpreter exits with status 1), then the target of restore
\* is checked, the patterns are expanded (no file: exit 1) and the loop runs
main(command, files, target, max_versions, compression) ==
    /\ ops < MaxRuns
    /\ ops' = ops + 1
    /\ before' = [versions |-> versions_path, work |-> work_dir]
    /\ streak' = NoStreak
    /\ UNCHANGED <<now, ticks>>
    /\ \E run \in {[NoRun EXCEPT !.op = "main", !.command = command, !.files = files,
                                 !.target = target, !.max_versions = max_versions]} :
          IF max_versions_invalid(max_versions)
          THEN /\ last' = [run EXCEPT !.raised = "ValueError", !.exit = 1]
               /\ UNCHANGED <<versions_path, work_dir>>
          ELSE IF command = "restore" /\ target = <<>>
          THEN /\ last' = [run EXCEPT !.exit = 1]
               /\ UNCHANGED <<versions_path, work_dir>>
          ELSE
            \E expanded \in expand_file_patterns(
                                IF command \in {"create", "list"} THEN work_dir ELSE versions_path,
                                files) :
               IF expanded = <<>>
               THEN /\ last' = [run EXCEPT !.exit = 1]
                    /\ UNCHANGED <<versions_path, work_dir>>
               ELSE
                 \E done \in process_files(
                                 Dirs(versions_path, work_dir), command, expanded, target,
                                 [timezone_format |-> "loc", timestamp_format |-> "mod",
                                  compression |-> compression,
                                  max_versions |-> IF max_versions = <<>> THEN NoLimit
                                                   ELSE max_versions[1]]) :
                    /\ versions_path' = done.versions
                    /\ work_dir' = done.work
                    /\ last' = [run EXCEPT
                                   !.expanded = expanded,
                                   !.statuses = done.statuses,
                                   !.exit = exit_status(Cardinality(
                                               {i \in 1..Len(done.statuses) :
                                                   done.statuses[i] # "ok"}))]

\* the working directory holds a.txt; the versions directory holds what
\* earlier runs and other programs left
CliInit ==
    /\ \E F \in SUBSET {LaterFile, NoteFile, OtherFile} :
          versions_path = [n \in F |-> File(0, "none", StartTime - 60)]
    /\ work_dir = [n \in {ATxt} |-> File(1, "none", StartTime - 120)]
    /\ now = StartTime
    /\ last = NoRun
    /\ before = [versions |-> versions_path, work |-> work_dir]
    /\ streak = NoStreak
    /\ ops = 0
    /\ ticks = 0

Main ==
    \E command \in Commands, max_versions \in MaxVersionsArgs :
       \E files \in FileArgs(command),
          target \in IF command = "restore" THEN TargetArgs ELSE {<<>>},
          compression \in IF command = "create" THEN {"none", "gz"} ELSE {"none"} :
          main(command, files, target, max_versions, compression)

CliNext == Main \/ Tick

CliSpec == CliInit /\ [][CliNext]_vars

\* the driver got past the configuration and the check of the target
Processed ==
    /\ last.op = "main" /\ last.raised = ""
    /\ ~(last.command = "restore" /\ last.target = <<>>)

SomeRaised == \E i \in 1..Len(last.statuses) : last.statuses[i] # "ok"

\* C37 as stated: for create, restore and remove the exit status is 1 if
\* and only if the operation of at least one file raised
C37_AsStated ==
    (Processed /\ last.command \in {"create", "restore", "remove"}) =>
        (last.exit = 1 <=> SomeRaised)

\* C37: once the configuration is accepted, the driver attempts every file
\* of its expanded list, also after a file failed; for create, restore and
\* remove it exits with status 1 if and only if the operation of at least
\* one file raised or no file was given; a restore without --target exits
\* with status 1 before any file is processed
C37_DriverExit ==
    /\ Processed =>
          /\ Len(last.statuses) = Len(last.expanded)
          /\ Len(last.expanded) >= Len(last.files)
          /\ last.command \in {"create", "restore", "remove"} =>
                (last.exit = 1 <=> (SomeRaised \/ last.files = <<>>))
    /\ (last.op = "main" /\ last.raised = "" /\ last.command = "restore"
            /\ last.target = <<>>) =>
          /\ last.exit = 1
          /\ last.statuses = <<>>
          /\ versions_path = before.versions /\ work_dir = before.work

\* create was given a missing file and then a.txt: the first failed, the
\* version of a.txt was written, and the exit status is 1
C37_Witness ==
    /\ Processed /\ last.command = "create"
    /\ last.expanded = <<GoneTxt, ATxt>>
    /\ last.statuses = <<"FileNotFoundError", "ok">>
    /\ Names(versions_path) \ Names(before.versions) # {}
    /\ last.exit = 1

====
